---------------------------- MODULE Spec2Model ----------------------------
(***************************************************************************)
(* A model of the lisp_lang evaluator (lisp_lang/src/evaluation) and of    *)
(* the lisp_repl session loop that drives it.                              *)
(*                                                                         *)
(* LispVal values are records tagged by the field t.  A Scope is a record  *)
(* of a context label and a function from names to values.  eval and its   *)
(* helpers are recursive operators that return an outcome record:          *)
(*   kind = "ok"     the Ok((scope, value)) of the source                  *)
(*   kind = "err"    the Err(EvalError) of the source                      *)
(*   kind = "panic"  the process aborted (unwrap of None, slice out of     *)
(*                   range, division by zero, arithmetic overflow in a     *)
(*                   build with overflow checks, exhausted call stack)     *)
(* together with log, the sequence of the calls of eval that were made, in *)
(* the order they were entered (a history of the evaluation).              *)
(***************************************************************************)
EXTENDS Integers, Sequences, FiniteSets, TLC

(***************************************************************************)
(* Bounds of the model.                                                    *)
(***************************************************************************)
\* width of the machine integer that stands for i64
IntBits == 8
\* depth of nested eval calls after which the call stack is exhausted
MaxDepth == 8
\* number of inputs the session reads
MaxInputs == 1
\* number of inputs a session of several inputs reads
MaxSessionInputs == 3

VARIABLES
    scope,            \* main.rs: `let mut scope`, the session scope
    input,            \* the expression the last iteration of the loop read
    before,           \* the session scope when that iteration started
    result,           \* the outcome of eval for that iteration
    running,          \* FALSE once the process has aborted
    inputs,           \* number of inputs read so far
    overflow_checks   \* build profile: TRUE when arithmetic overflow panics

vars == <<scope, input, before, result, running, inputs, overflow_checks>>

(***************************************************************************)
(* LispVal (parsing/mod.rs)                                                *)
(***************************************************************************)
Symbol(s) == [t |-> "Symbol", s |-> s]
String(x) == [t |-> "String", str |-> x]
List(l) == [t |-> "List", l |-> l]
Number(n) == [t |-> "Number", n |-> n]
Boolean(b) == [t |-> "Boolean", b |-> b]
Unevaluated(v) == [t |-> "Unevaluated", q |-> v]
Function(parameters, body, applied) ==
    [t |-> "Function", parameters |-> parameters, body |-> body, applied |-> applied]
Void == [t |-> "Void"]

RECURSIVE to_type(_)
to_type(v) == IF v.t = "Unevaluated" THEN to_type(v.q) ELSE v.t

\* is_macro with a plausible fault: the first character is tested
is_macro_first_character(v) ==
    /\ v.t = "Symbol"
    /\ Len(v.s) >= 1
    /\ SubSeq(v.s, 1, 1) = "!"

is_macro(v) ==
    /\ v.t = "Symbol"
    /\ Len(v.s) >= 1
    /\ SubSeq(v.s, Len(v.s), Len(v.s)) = "!"

concat(left, right) ==
    IF left.t = "List" /\ right.t = "List" THEN List(left.l \o right.l)
    ELSE IF left.t = "List" THEN List(Append(left.l, right))
    ELSE IF right.t = "List" THEN List(<<left>> \o right.l)
    ELSE List(<<left, right>>)

(***************************************************************************)
(* Machine integers: i64 scaled to IntBits bits.                           *)
(***************************************************************************)
I64_MIN == -(2 ^ (IntBits - 1))
I64_MAX == (2 ^ (IntBits - 1)) - 1
InRange(n) == I64_MIN <= n /\ n <= I64_MAX
Wrap(n) == ((n - I64_MIN) % (2 ^ IntBits)) + I64_MIN
Abs(n) == IF n < 0 THEN -n ELSE n
\* Rust's / truncates toward zero and % takes the sign of the dividend
TruncDiv(a, b) ==
    IF (a < 0) = (b < 0) THEN Abs(a) \div Abs(b) ELSE -(Abs(a) \div Abs(b))
TruncRem(a, b) == a - b * TruncDiv(a, b)

(***************************************************************************)
(* Scope (evaluation/scope.rs)                                             *)
(***************************************************************************)
MAIN_CONTEXT == "main"
Scope(context, bindings) == [context |-> context, bindings |-> bindings]
empty(context) == Scope(context, <<>>)
\* with_context with a plausible fault: the label of the receiver is kept
with_context_kept(s, context) == Scope(s.context, s.bindings)

with_context(s, context) == Scope(context, s.bindings)
\* bind with a plausible fault: a name that is bound keeps its value
bind_if_absent(s, name, value) ==
    Scope(s.context,
          [n \in DOMAIN s.bindings \cup {name} |->
              IF n \in DOMAIN s.bindings THEN s.bindings[n] ELSE value])

bind(s, name, value) ==
    Scope(s.context,
          [n \in DOMAIN s.bindings \cup {name} |->
              IF n = name THEN value ELSE s.bindings[n]])
\* get returns Some(value) exactly when has holds
has(s, name) == name \in DOMAIN s.bindings
get(s, name) == s.bindings[name]
INITIAL_SCOPE ==
    bind(bind(empty(MAIN_CONTEXT), "MAX_INT", Number(I64_MAX)),
         "MIN_INT", Number(I64_MIN))

(***************************************************************************)
(* EvalError (evaluation/error.rs) and outcomes                            *)
(***************************************************************************)
InvalidArgumentType(name, expected, got, position) ==
    [e |-> "InvalidArgumentType", name |-> name, expected |-> expected,
     got |-> got, position |-> position]
InvalidFunctionCall(values) == [e |-> "InvalidFunctionCall", values |-> values]
UnknownIdentifier(id) == [e |-> "UnknownIdentifier", id |-> id]
NoError == [e |-> "None"]
NoScope == Scope("", <<>>)

Ok(s, v, log) ==
    [kind |-> "ok", scope |-> s, val |-> v, err |-> NoError, log |-> log]
Err(e, log) ==
    [kind |-> "err", scope |-> NoScope, val |-> Void, err |-> e, log |-> log]
Panic(why, log) ==
    [kind |-> "panic", scope |-> NoScope, val |-> Void,
     err |-> [e |-> "Panic", why |-> why], log |-> log]
\* the outcome r with the history h put in front of its own
After(h, r) == [r EXCEPT !.log = h \o r.log]
\* from_arg with a plausible fault: the position is not carried over
from_arg_without_position(position, name, expected, v) ==
    InvalidArgumentType(name, expected, to_type(v), 0)

\* EvalError::from_arg applied to the LispValUnwrapError of a failed coercion
from_arg(position, name, expected, v) ==
    InvalidArgumentType(name, expected, to_type(v), position)
(***************************************************************************)
(* Entries of the history.  Every entry names the operation that was       *)
(* entered (op), its inputs, its outcome, and size: the number of entries  *)
(* of the history that belong to it (itself and everything it called).     *)
(***************************************************************************)
EvalCall(s, expr, r) ==
    [op |-> "eval", expr |-> expr, scope |-> s, kind |-> r.kind,
     out |-> r.scope, val |-> r.val, err |-> r.err, size |-> Len(r.log) + 1]
TailCall(s, tail, r) ==
    [op |-> "eval_tail", tail |-> tail, scope |-> s,
     kind |-> r.kind, out |-> r.scope, val |-> r.val, err |-> r.err,
     size |-> Len(r.log) + 1]
FunctionCall(s, parameters, body, arguments, r) ==
    [op |-> "eval_function", parameters |-> parameters, body |-> body,
     arguments |-> arguments, scope |-> s, kind |-> r.kind, out |-> r.scope,
     val |-> r.val, err |-> r.err, size |-> Len(r.log) + 1]
NativeCall(atom, s, values, r) ==
    [op |-> "call", atom |-> atom, values |-> values, scope |-> s,
     kind |-> r.kind, out |-> r.scope, val |-> r.val, err |-> r.err,
     size |-> Len(r.log) + 1]
(***************************************************************************)
(* Native operations: what the closure given to eval_op1 / eval_op2        *)
(* computes from its coerced arguments, a value or a fault of the process. *)
(***************************************************************************)
Value(v) == [fault |-> FALSE, v |-> v, why |-> ""]
Fault(why) == [fault |-> TRUE, v |-> Void, why |-> why]
\* i64 arithmetic: overflow panics with overflow checks, wraps without
Arith(n) ==
    IF InRange(n) THEN Value(Number(n))
    ELSE IF overflow_checks THEN Fault("arithmetic_overflow")
    ELSE Value(Number(Wrap(n)))
Division(a, b) ==
    IF b = 0 THEN Fault("division_by_zero")
    ELSE IF a = I64_MIN /\ b = -1 THEN Fault("arithmetic_overflow")
    ELSE Value(Number(TruncDiv(a, b)))
Remainder(a, b) ==
    IF b = 0 THEN Fault("division_by_zero")
    ELSE IF a = I64_MIN /\ b = -1 THEN Fault("arithmetic_overflow")
    ELSE Value(Number(TruncRem(a, b)))
Max(a, b) == IF a >= b THEN a ELSE b
Min(a, b) == IF a <= b THEN a ELSE b

MathNames == {"+", "-", "*", "/", "%", "add", "sub", "mul", "div", "mod", "max", "min"}
ComparisonNames == {"<", ">", "<=", ">=", "=", "lt", "gt", "ltq", "gtq", "eq"}
LogicNames == {"and", "or"}

eval_math(atom, a, b) ==
    CASE atom \in {"+", "add"} -> Arith(a + b)
      [] atom \in {"-", "sub"} -> Arith(a - b)
      [] atom \in {"*", "mul"} -> Arith(a * b)
      [] atom \in {"/", "div"} -> Division(a, b)
      [] atom \in {"%", "mod"} -> Remainder(a, b)
      [] atom = "max" -> Value(Number(Max(a, b)))
      [] atom = "min" -> Value(Number(Min(a, b)))
eval_comparison(atom, a, b) ==
    CASE atom \in {"<", "lt"} -> Value(Boolean(a < b))
      [] atom \in {">", "gt"} -> Value(Boolean(a > b))
      [] atom \in {"<=", "ltq"} -> Value(Boolean(a <= b))
      [] atom \in {">=", "gtq"} -> Value(Boolean(a >= b))
      [] atom \in {"=", "eq"} -> Value(Boolean(a = b))
eval_logic(atom, a, b) ==
    CASE atom = "and" -> Value(Boolean(a /\ b))
      [] atom = "or" -> Value(Boolean(a \/ b))

\* the outcome of a native operation in scope s
\* Returned with a plausible fault: a fault of the operation is returned as
\* an error
Returned_as_error(s, o) ==
    IF o.fault THEN Err(InvalidFunctionCall(<<>>), <<>>) ELSE Ok(s, o.v, <<>>)

Returned(s, o) == IF o.fault THEN Panic(o.why, <<>>) ELSE Ok(s, o.v, <<>>)

\* evaluation/mod.rs 19-35: eval_op1, the argument unwrapped as `expected`
eval_op1(expected, operation(_), s, values) ==
    IF values[1].t # expected
    THEN Err(from_arg(0, s.context, expected, values[1]), <<>>)
    ELSE Returned(s, operation(values[1]))

\* evaluation/mod.rs 37-60: eval_op2, both arguments unwrapped as `expected`
eval_op2(expected, operation(_, _), s, values) ==
    IF values[1].t # expected
    THEN Err(from_arg(0, s.context, expected, values[1]), <<>>)
    ELSE IF values[2].t # expected
    THEN Err(from_arg(1, s.context, expected, values[2]), <<>>)
    ELSE Returned(s, operation(values[1], values[2]))

eval_push(s, values) ==
    IF values[1].t # "List"
    THEN Err(from_arg(0, s.context, "List", values[1]), <<>>)
    ELSE Ok(s, List(Append(values[1].l, values[2])), <<>>)

eval_value_definition(s, values) ==
    IF values[1].t # "Symbol"
    THEN Err(from_arg(0, s.context, "Symbol", values[1]), <<>>)
    ELSE Ok(bind(s, values[1].s, values[2]), Void, <<>>)

eval_function_value(s, values) ==
    IF values[1].t # "List"
    THEN Err(from_arg(0, s.context, "List", values[1]), <<>>)
    ELSE LET args_values == values[1].l
             bad == {i \in 1..Len(args_values) : args_values[i].t # "Symbol"}
             first == CHOOSE i \in bad : \A j \in bad : i <= j
         IN IF bad # {}
            THEN Err(from_arg(1, s.context, "Symbol", args_values[first]), <<>>)
            ELSE Ok(s, Function([i \in 1..Len(args_values) |-> args_values[i].s],
                                values[2], <<>>), <<>>)

eval_function_definition(s, values) ==
    IF values[1].t # "Symbol"
    THEN Err(from_arg(0, s.context, "Symbol", values[1]), <<>>)
    ELSE LET r == eval_function_value(s, Tail(values))
         IN IF r.kind # "ok" THEN r
            ELSE Ok(bind(r.scope, values[1].s, r.val), Void, <<>>)

eval_debug(s, values) == Ok(s, values[1], <<>>)
eval_print_scope(s, values) == Ok(s, Void, <<>>)
\* eval_clear_scope with a plausible fault: the names the session is seeded
\* with keep the values they have
eval_clear_scope_keeping_seeds(s, values) ==
    Ok(Scope(MAIN_CONTEXT,
             [n \in DOMAIN s.bindings \cap DOMAIN INITIAL_SCOPE.bindings |->
                 s.bindings[n]]), Void, <<>>)

eval_clear_scope(s, values) == Ok(INITIAL_SCOPE, Void, <<>>)

(***************************************************************************)
(* INTERNAL_SYMBOLS_TABLE: the required argument count of every native.    *)
(***************************************************************************)
required_arguments_count ==
    [a \in MathNames \cup ComparisonNames \cup LogicNames |-> 2]
    @@ [a \in {"eval", "print", "debug", "to_string", "head", "tail", "len", "not"} |-> 1]
    @@ [a \in {"map", "concat", "push", "fn!", "def!"} |-> 2]
    @@ [a \in {"fold", "defn!", "if!"} |-> 3]
    @@ [a \in {"print_scope", "clear_scope"} |-> 0]
INTERNAL_SYMBOLS_TABLE == DOMAIN required_arguments_count

\* NativeFunction::to_function; the registry entry is native, name the label
to_function(native, name, applied) ==
    LET args == [n \in 1..required_arguments_count[native] |-> "a" \o ToString(n - 1)]
    IN Function(args,
                List(<<Symbol(name)>> \o [i \in 1..Len(args) |-> Symbol(args[i])]),
                applied)

(***************************************************************************)
(* The evaluator (evaluation/mod.rs).  d is the number of nested calls of  *)
(* eval the call stack still has room for.                                 *)
(***************************************************************************)
RECURSIVE eval(_, _, _)
RECURSIVE eval_list(_, _, _)
RECURSIVE eval_tail_from(_, _, _, _, _, _)
RECURSIVE eval_function(_, _, _, _, _)
RECURSIVE call(_, _, _, _)
RECURSIVE fold_from(_, _, _, _, _, _, _)
RECURSIVE map_from(_, _, _, _, _, _, _)

\* eval_fold: the try_fold over list, from element i with accumulator acc
fold_from(s, operation, acc, list, i, log, d) ==
    IF i > Len(list) THEN Ok(s, acc, log)
    ELSE LET r == eval(s, List(<<operation, acc, list[i]>>), d)
         IN IF r.kind # "ok" THEN After(log, r)
            ELSE fold_from(r.scope, operation, r.val, list, i + 1, log \o r.log, d)

eval_fold(s, values, d) ==
    IF values[3].t # "List"
    THEN Err(from_arg(1, s.context, "List", values[3]), <<>>)
    ELSE fold_from(s, values[1], values[2], values[3].l, 1, <<>>, d)

\* eval_map: the try_fold over list, from element i with the results in acc
map_from(s, operation, acc, list, i, log, d) ==
    IF i > Len(list) THEN Ok(s, List(acc), log)
    ELSE LET r == eval(s, List(<<operation, list[i]>>), d)
         IN IF r.kind # "ok" THEN After(log, r)
            ELSE map_from(r.scope, operation, Append(acc, r.val), list, i + 1,
                          log \o r.log, d)

eval_map(s, values, d) ==
    IF values[2].t # "List"
    THEN Err(from_arg(1, s.context, "List", values[2]), <<>>)
    ELSE map_from(s, values[1], <<>>, values[2].l, 1, <<>>, d)

\* eval_if with a plausible fault: both branches are evaluated
eval_if_both(s, values, d) ==
    LET c == eval(s, values[1], d)
    IN IF c.kind # "ok" THEN c
       ELSE IF c.val.t # "Boolean"
       THEN Err(from_arg(0, s.context, "Boolean", c.val), c.log)
       ELSE LET then == eval(c.scope, values[2], d)
                else == eval(c.scope, values[3], d)
            IN IF then.kind # "ok" THEN After(c.log, then)
               ELSE IF else.kind # "ok" THEN After(c.log \o then.log, else)
               ELSE IF c.val.b THEN After(c.log, then)
               ELSE After(c.log, else)

eval_if(s, values, d) ==
    LET c == eval(s, values[1], d)
    IN IF c.kind # "ok" THEN c
       ELSE IF c.val.t # "Boolean"
       THEN Err(from_arg(0, s.context, "Boolean", c.val), c.log)
       ELSE IF c.val.b THEN After(c.log, eval(c.scope, values[2], d))
       ELSE After(c.log, eval(c.scope, values[3], d))

eval_concat(s, values, d) ==
    LET left == eval(s, values[1], d)
    IN IF left.kind # "ok" THEN left
       ELSE LET right == eval(left.scope, values[2], d)
            IN IF right.kind # "ok" THEN After(left.log, right)
               ELSE Ok(right.scope, concat(left.val, right.val),
                       left.log \o right.log)

eval_unevaluated(s, values, d) == eval(s, values[1], d)

\* the implementation stored in the registry under atom
implementation(atom, s, values, d) ==
    CASE atom = "eval" -> eval_unevaluated(s, values, d)
      [] atom = "print" -> eval_op1("String", LAMBDA x : Value(Void), s, values)
      [] atom = "debug" -> eval_debug(s, values)
      [] atom = "to_string" ->
            eval_op1("Number", LAMBDA x : Value(String(ToString(x.n))), s, values)
      [] atom = "fold" -> eval_fold(s, values, d)
      [] atom = "map" -> eval_map(s, values, d)
      [] atom = "concat" -> eval_concat(s, values, d)
      [] atom = "push" -> eval_push(s, values)
      [] atom = "fn!" -> eval_function_value(s, values)
      [] atom = "def!" -> eval_value_definition(s, values)
      [] atom = "defn!" -> eval_function_definition(s, values)
      [] atom = "print_scope" -> eval_print_scope(s, values)
      [] atom = "clear_scope" -> eval_clear_scope(s, values)
      [] atom = "head" ->
            eval_op1("List",
                     LAMBDA x : IF Len(x.l) = 0 THEN Fault("unwrap_on_none")
                                ELSE Value(x.l[1]), s, values)
      [] atom = "tail" ->
            eval_op1("List",
                     LAMBDA x : IF Len(x.l) = 0 THEN Fault("slice_out_of_range")
                                ELSE Value(List(Tail(x.l))), s, values)
      [] atom = "len" ->
            eval_op1("List", LAMBDA x : Value(Number(Len(x.l))), s, values)
      [] atom = "if!" -> eval_if(s, values, d)
      [] atom \in MathNames ->
            eval_op2("Number", LAMBDA x, y : eval_math(atom, x.n, y.n), s, values)
      [] atom \in ComparisonNames ->
            eval_op2("Number", LAMBDA x, y : eval_comparison(atom, x.n, y.n), s, values)
      [] atom \in LogicNames ->
            eval_op2("Boolean", LAMBDA x, y : eval_logic(atom, x.b, y.b), s, values)
      [] atom = "not" ->
            eval_op1("Boolean", LAMBDA x : Value(Boolean(~x.b)), s, values)

\* NativeFunction::call on the registry entry atom
call(atom, s, values, d) ==
    LET name == s.context
        r == IF Len(values) < required_arguments_count[atom]
             THEN Ok(s, to_function(atom, name, values), <<>>)
             ELSE implementation(atom, s, values, d)
    IN After(<<NativeCall(atom, s, values, r)>>, r)

\* bind_arguments with a plausible fault: the arguments are taken from the end
RECURSIVE bind_arguments_reversed(_, _, _, _)
bind_arguments_reversed(s, parameters, arguments, i) ==
    IF i > Len(parameters) \/ i > Len(arguments) THEN s
    ELSE bind_arguments_reversed(
             bind(s, parameters[i], arguments[Len(arguments) + 1 - i]),
             parameters, arguments, i + 1)

\* the fold of eval_function that binds the parameters to the arguments
RECURSIVE bind_arguments(_, _, _, _)
bind_arguments(s, parameters, arguments, i) ==
    IF i > Len(parameters) \/ i > Len(arguments) THEN s
    ELSE bind_arguments(bind(s, parameters[i], arguments[i]), parameters,
                        arguments, i + 1)

\* eval_function with a plausible fault: the scope of the body is returned
eval_function_leaky(s, parameters, body, arguments, d) ==
    LET r == IF Len(arguments) < Len(parameters)
             THEN Ok(s, Function(parameters, body, arguments), <<>>)
             ELSE eval(bind_arguments(s, parameters, arguments, 1), body, d)
    IN After(<<FunctionCall(s, parameters, body, arguments, r)>>, r)

\* eval_function with a plausible fault: an exactly saturated call is kept
\* as a Function
eval_function_off_by_one(s, parameters, body, arguments, d) ==
    LET r == IF Len(arguments) <= Len(parameters) /\ parameters # <<>>
             THEN Ok(s, Function(parameters, body, arguments), <<>>)
             ELSE LET b == eval(bind_arguments(s, parameters, arguments, 1), body, d)
                  IN IF b.kind # "ok" THEN b ELSE Ok(s, b.val, b.log)
    IN After(<<FunctionCall(s, parameters, body, arguments, r)>>, r)

\* eval_function with a plausible fault: the body is evaluated on the
\* arguments at hand before the partial application is returned
eval_function_eager(s, parameters, body, arguments, d) ==
    LET b == eval(bind_arguments(s, parameters, arguments, 1), body, d)
        r == IF b.kind # "ok" THEN b
             ELSE IF Len(arguments) < Len(parameters)
             THEN Ok(s, Function(parameters, body, arguments), b.log)
             ELSE Ok(s, b.val, b.log)
    IN After(<<FunctionCall(s, parameters, body, arguments, r)>>, r)

\* eval_function with a plausible fault: more arguments than parameters are
\* an error
eval_function_rejecting_surplus(s, parameters, body, arguments, d) ==
    LET r == IF Len(arguments) < Len(parameters)
             THEN Ok(s, Function(parameters, body, arguments), <<>>)
             ELSE IF Len(arguments) > Len(parameters)
             THEN Err(InvalidFunctionCall(arguments), <<>>)
             ELSE LET b == eval(bind_arguments(s, parameters, arguments, 1), body, d)
                  IN IF b.kind # "ok" THEN b ELSE Ok(s, b.val, b.log)
    IN After(<<FunctionCall(s, parameters, body, arguments, r)>>, r)

\* eval_function with a plausible fault: the body sees the parameters only,
\* over the initial scope
eval_function_fresh_scope(s, parameters, body, arguments, d) ==
    LET r == IF Len(arguments) < Len(parameters)
             THEN Ok(s, Function(parameters, body, arguments), <<>>)
             ELSE LET fresh == with_context(INITIAL_SCOPE, s.context)
                      b == eval(bind_arguments(fresh, parameters, arguments, 1),
                                body, d)
                  IN IF b.kind # "ok" THEN b ELSE Ok(s, b.val, b.log)
    IN After(<<FunctionCall(s, parameters, body, arguments, r)>>, r)

eval_function(s, parameters, body, arguments, d) ==
    LET scope_before == s
        r == IF Len(arguments) < Len(parameters)
             THEN Ok(s, Function(parameters, body, arguments), <<>>)
             ELSE LET b == eval(bind_arguments(scope_before, parameters, arguments, 1),
                                body, d)
                  IN IF b.kind # "ok" THEN b
                     ELSE Ok(scope_before, b.val, b.log)
    IN After(<<FunctionCall(s, parameters, body, arguments, r)>>, r)

\* eval_tail_from with a plausible fault: every element is evaluated in the
\* scope the call started with
RECURSIVE eval_tail_from_unthreaded(_, _, _, _, _, _)
eval_tail_from_unthreaded(s, tail, i, acc, log, d) ==
    IF i > Len(tail) THEN Ok(s, List(acc), log)
    ELSE LET r == eval(s, tail[i], d)
         IN IF r.kind # "ok" THEN After(log, r)
            ELSE eval_tail_from_unthreaded(s, tail, i + 1, Append(acc, r.val),
                                           log \o r.log, d)

\* eval_tail_from with a plausible fault: the elements after one that failed
\* are evaluated before its error is returned
eval_tail_from_exhaustive(s, tail, i, acc, log, d) ==
    IF i > Len(tail) THEN Ok(s, List(acc), log)
    ELSE LET r == eval(s, tail[i], d)
         IN IF r.kind = "err"
            THEN LET rest == eval_tail_from(s, tail, i + 1, acc, log \o r.log, d)
                 IN [r EXCEPT !.log = rest.log]
            ELSE IF r.kind # "ok" THEN After(log, r)
            ELSE eval_tail_from(r.scope, tail, i + 1, Append(acc, r.val),
                                log \o r.log, d)

\* eval_tail: the try_fold over tail, from element i with the values in acc
eval_tail_from(s, tail, i, acc, log, d) ==
    IF i > Len(tail) THEN Ok(s, List(acc), log)
    ELSE LET r == eval(s, tail[i], d)
         IN IF r.kind # "ok" THEN After(log, r)
            ELSE eval_tail_from(r.scope, tail, i + 1, Append(acc, r.val),
                                log \o r.log, d)

\* the outcome holds the evaluated values as a List
eval_tail(s, tail, d) ==
    LET r == eval_tail_from(s, tail, 1, <<>>, <<>>, d)
    IN After(<<TailCall(s, tail, r)>>, r)

\* eval_list with a plausible fault: the errors of a symbol bound to a value
\* that is no Function and of an unbound symbol are exchanged
eval_list_swapped_errors(s, values, d) ==
    IF values = <<>> THEN Ok(s, List(<<>>), <<>>)
    ELSE
    LET head == values[1]
        tail == Tail(values)
    IN IF head.t = "Symbol"
       THEN LET atom == head.s
                args == IF is_macro(head)
                        THEN Ok(with_context(s, atom), List(tail), <<>>)
                        ELSE eval_tail(with_context(s, atom), tail, d)
            IN IF args.kind # "ok" THEN args
               ELSE IF atom = "list" THEN args
               ELSE IF atom \in INTERNAL_SYMBOLS_TABLE
               THEN After(args.log, call(atom, args.scope, args.val.l, d))
               ELSE IF has(args.scope, atom)
               THEN LET value == get(args.scope, atom)
                    IN IF value.t = "Function"
                       THEN After(args.log,
                                  eval_function(args.scope, value.parameters,
                                                value.body,
                                                value.applied \o args.val.l, d))
                       ELSE Err(UnknownIdentifier(atom), args.log)
               ELSE Err(InvalidFunctionCall(values), args.log)
       ELSE IF head.t = "Function"
       THEN eval_function(with_context(s, "anonymous"), head.parameters,
                          head.body, head.applied \o tail, d)
       ELSE Err(InvalidFunctionCall(values), <<>>)
\* eval_list with a plausible fault: the scope is looked up before the name
\* list and the registry of natives
eval_list_scope_first(s, values, d) ==
    IF values = <<>> THEN Ok(s, List(<<>>), <<>>)
    ELSE
    LET head == values[1]
        tail == Tail(values)
    IN IF head.t = "Symbol"
       THEN LET atom == head.s
                args == IF is_macro(head)
                        THEN Ok(with_context(s, atom), List(tail), <<>>)
                        ELSE eval_tail(with_context(s, atom), tail, d)
            IN IF args.kind # "ok" THEN args
               ELSE IF has(args.scope, atom)
               THEN LET value == get(args.scope, atom)
                    IN IF value.t = "Function"
                       THEN After(args.log,
                                  eval_function(args.scope, value.parameters,
                                                value.body,
                                                value.applied \o args.val.l, d))
                       ELSE Err(InvalidFunctionCall(values), args.log)
               ELSE IF atom = "list" THEN args
               ELSE IF atom \in INTERNAL_SYMBOLS_TABLE
               THEN After(args.log, call(atom, args.scope, args.val.l, d))
               ELSE Err(UnknownIdentifier(atom), args.log)
       ELSE IF head.t = "Function"
       THEN eval_function(with_context(s, "anonymous"), head.parameters,
                          head.body, head.applied \o tail, d)
       ELSE Err(InvalidFunctionCall(values), <<>>)

eval_list(s, values, d) ==
    IF values = <<>> THEN Ok(s, List(<<>>), <<>>)
    ELSE
    LET head == values[1]
        tail == Tail(values)
    IN IF head.t = "Symbol"
       THEN LET atom == head.s
                args == IF is_macro(head)
                        THEN Ok(with_context(s, atom), List(tail), <<>>)
                        ELSE eval_tail(with_context(s, atom), tail, d)
            IN IF args.kind # "ok" THEN args
               ELSE IF atom = "list" THEN args
               ELSE IF atom \in INTERNAL_SYMBOLS_TABLE
               THEN After(args.log, call(atom, args.scope, args.val.l, d))
               ELSE IF has(args.scope, atom)
               THEN LET value == get(args.scope, atom)
                    IN IF value.t = "Function"
                       THEN After(args.log,
                                  eval_function(args.scope, value.parameters,
                                                value.body,
                                                value.applied \o args.val.l, d))
                       ELSE Err(InvalidFunctionCall(values), args.log)
               ELSE Err(UnknownIdentifier(atom), args.log)
       ELSE IF head.t = "Function"
       THEN eval_function(with_context(s, "anonymous"), head.parameters,
                          head.body, head.applied \o tail, d)
       ELSE Err(InvalidFunctionCall(values), <<>>)

\* eval with a plausible fault: the quoted value is evaluated
eval_forcing_quote(s, expr, d) ==
    LET r == IF d = 0 THEN Panic("stack_overflow", <<>>)
             ELSE CASE expr.t = "Symbol" ->
                         IF has(s, expr.s) THEN Ok(s, get(s, expr.s), <<>>)
                         ELSE Err(UnknownIdentifier(expr.s), <<>>)
                    [] expr.t = "List" -> eval_list(s, expr.l, d - 1)
                    [] expr.t = "Unevaluated" -> eval(s, expr.q, d - 1)
                    [] OTHER -> Ok(s, expr, <<>>)
    IN After(<<EvalCall(s, expr, r)>>, r)

eval(s, expr, d) ==
    LET r == IF d = 0 THEN Panic("stack_overflow", <<>>)
             ELSE CASE expr.t = "Symbol" ->
                         IF has(s, expr.s) THEN Ok(s, get(s, expr.s), <<>>)
                         ELSE Err(UnknownIdentifier(expr.s), <<>>)
                    [] expr.t = "List" -> eval_list(s, expr.l, d - 1)
                    [] expr.t = "Unevaluated" -> Ok(s, expr.q, <<>>)
                    [] OTHER -> Ok(s, expr, <<>>)
    IN After(<<EvalCall(s, expr, r)>>, r)

(***************************************************************************)
(* The expressions the session reads.  The parser (parsing/mod.rs) builds  *)
(* them from Symbol, String, Number, Boolean, List and Unevaluated only.   *)
(***************************************************************************)
Sy(s) == Symbol(s)
Nu(n) == Number(n)
Ap(l) == List(l)
Qu(v) == Unevaluated(v)

\* the binary natives and the integers of the currying expressions
CurryOps == {"+", "-", "*", "/", "%", "max", "<", "eq", "concat"}
CurryLeft == {3}
CurryRight == {4, 0}

\* (def! name value), (defn! name (params) body), (fn! (params) body)
Def(name, value) == Ap(<<Sy("def!"), Sy(name), value>>)
Defn(name, params, body) ==
    Ap(<<Sy("defn!"), Sy(name), Ap([i \in 1..Len(params) |-> Sy(params[i])]), body>>)
Fn(params, body) ==
    Ap(<<Sy("fn!"), Ap([i \in 1..Len(params) |-> Sy(params[i])]), body>>)
\* (list e1 ... en)
Seqn(l) == Ap(<<Sy("list")>> \o l)
\* (atom e1 ... en)
App(atom, l) == Ap(<<Sy(atom)>> \o l)

\* bindings made in arguments, and clear_scope
BindingPrograms == {
    Seqn(<<Def("x", Nu(10)), App("+", <<Sy("x"), Nu(2)>>)>>),
    App("clear_scope", <<Def("x", Nu(1))>>),
    Seqn(<<Def("x", Nu(10)), App("clear_scope", <<>>), Nu(5)>>),
    Seqn(<<Def("x", Nu(1)), Def("x", Nu(2)), Sy("x")>>),
    App("+", <<Seqn(<<Def("y", Nu(1))>>), Nu(2)>>),
    Def("x", Nu(10)),
    Def("x", App("+", <<Nu(1), Nu(2)>>)),
    Def("y", Sy("x")),
    App("+", <<Sy("x"), Nu(2)>>),
    Sy("x"),
    Sy("y")
}

\* user functions: definition, saturated and under-saturated application
DefF == Defn("f", <<"x">>, Seqn(<<Def("y", Sy("x")), Def("x", Nu(0)), Sy("x")>>))
DefG == Defn("g", <<"a">>, App("clear_scope", <<>>))
DefK == Defn("k", <<>>, Nu(42))
DefBad == Defn("bad", <<"a", "b">>, Seqn(<<Def("w", Sy("a")), App("undefined", <<>>)>>))
DefF3 == Defn("f3", <<"a", "b", "c">>, Seqn(<<Def("w", Sy("a")), App("undefined", <<>>)>>))
DefApp == Defn("app", <<"h", "v">>, App("h", <<Sy("v")>>))
FunctionPrograms == {
    DefF, DefG, DefK, DefBad,
    App("f", <<Nu(1)>>),
    Fn(<<"a">>, Sy("a")),
    Fn(<<>>, Nu(1)),
    App("fn!", <<Ap(<<Nu(1)>>), Nu(1)>>),
    App("+", <<Nu(1)>>),
    Seqn(<<Def("x", Nu(7)), DefF, App("f", <<Nu(1)>>), Sy("x")>>),
    Seqn(<<DefF, App("f", <<Def("z", Nu(3))>>), Sy("z")>>),
    Seqn(<<DefF, App("f", <<>>)>>),
    Seqn(<<DefF, App("f", <<Nu(1), Nu(2)>>)>>),
    Seqn(<<Def("x", Nu(5)), DefG, App("g", <<Nu(1)>>), Sy("x")>>),
    Seqn(<<DefK, App("k", <<>>)>>),
    Seqn(<<DefBad, App("bad", <<Nu(1)>>)>>),
    Seqn(<<DefBad, App("bad", <<Nu(1), Nu(2)>>)>>),
    Seqn(<<DefF3, DefApp, App("app", <<App("f3", <<Nu(1)>>), Nu(2)>>)>>),
    Seqn(<<DefF3, DefApp, App("app", <<App("f3", <<Nu(1), Nu(2)>>), Nu(3)>>)>>),
    Seqn(<<DefF, DefApp, App("app", <<Sy("f"), Nu(2)>>), Sy("y")>>),
    Seqn(<<Def("n", Nu(1)), App("n", <<Nu(2)>>)>>),
    Seqn(<<Defn("m!", <<"a", "b">>, Sy("a")), App("m!", <<App("+", <<Nu(1), Nu(2)>>)>>)>>),
    Seqn(<<Defn("m!", <<"a", "b">>, Sy("a")), App("m!", <<App("+", <<Nu(1), Nu(2)>>), Sy("u")>>)>>)
}

\* under-saturated natives whose arguments are calls themselves
NativeCurryPrograms == {
    App("+", <<App("-", <<Nu(5), Nu(2)>>)>>),
    App("+", <<Nu(3)>>),
    App("fold", <<Nu(1), App("max", <<Nu(1), Nu(2)>>)>>),
    Seqn(<<Defn("id", <<"a">>, Sy("a")), App("+", <<App("id", <<Nu(3)>>)>>)>>),
    App("if!", <<Boolean(TRUE)>>)
}

\* (list (op a) (map (op a) (list b)) (op a b)) for a native op
CurryNative(op, a, b) ==
    Seqn(<<App(op, <<Nu(a)>>),
           App("map", <<App(op, <<Nu(a)>>), Seqn(<<Nu(b)>>)>>),
           App(op, <<Nu(a), Nu(b)>>)>>)
\* the same steps on (defn! f2 (p q) (op p q))
CurryUser(op, a, b) ==
    Seqn(<<Defn("f2", <<"p", "q">>, App(op, <<Sy("p"), Sy("q")>>)),
           App("f2", <<Nu(a)>>),
           App("map", <<App("f2", <<Nu(a)>>), Seqn(<<Nu(b)>>)>>),
           App("f2", <<Nu(a), Nu(b)>>)>>)
CurryPrograms ==
    {CurryNative(op, a, b) : op \in CurryOps, a \in CurryLeft, b \in CurryRight}
    \cup {CurryUser(op, a, b) : op \in CurryOps, a \in CurryLeft, b \in CurryRight}

\* a Function value in head position, reached through map and fold
FunctionHeadPrograms == {
    App("map", <<Fn(<<"v">>, Sy("v")), Qu(Ap(<<Sy("x")>>))>>),
    Seqn(<<Def("x", Nu(10)), App("map", <<Fn(<<"v">>, Sy("v")), Qu(Ap(<<Sy("x")>>))>>)>>),
    App("map", <<Fn(<<"v">>, Sy("v")), Qu(Ap(<<App("+", <<Nu(1), Nu(2)>>)>>))>>),
    App("map", <<Fn(<<"v">>, App("+", <<Sy("v"), Nu(1)>>)), Seqn(<<Nu(1), Nu(2)>>)>>),
    App("map", <<Fn(<<"u", "v">>, Sy("v")), Seqn(<<Nu(1), Nu(2)>>)>>),
    App("fold", <<Fn(<<"p", "q">>, Sy("q")), Nu(0), Qu(Ap(<<Sy("x")>>))>>),
    App("fold", <<Fn(<<"p", "q">>, App("-", <<Sy("p"), Sy("q")>>)), Nu(9),
                  Seqn(<<Nu(1), Nu(2)>>)>>)
}

ConcatPrograms == {
    App("concat", <<Qu(Ap(<<Nu(1), Nu(2)>>)), Qu(Ap(<<Nu(3)>>))>>),
    App("concat", <<Qu(Ap(<<Nu(1)>>)), Nu(2)>>),
    App("concat", <<Nu(1), Qu(Ap(<<Nu(2)>>))>>),
    App("concat", <<Nu(1), Nu(2)>>),
    App("concat", <<Qu(Ap(<<>>)), Qu(Ap(<<>>))>>),
    App("concat", <<Sy("x"), Nu(2)>>)
}

IfPrograms == {
    App("if!", <<Boolean(TRUE), Nu(1), Nu(2)>>),
    App("if!", <<Boolean(FALSE), Def("y", Nu(1)), Def("z", Nu(2))>>),
    App("if!", <<App("<", <<Nu(1), Nu(2)>>), Def("y", Nu(1)), App("undefined", <<>>)>>),
    App("if!", <<App(">", <<Nu(1), Nu(2)>>), App("undefined", <<>>), Def("z", Nu(2))>>),
    App("if!", <<Nu(5), Def("y", Nu(1)), Def("z", Nu(2))>>),
    App("if!", <<App("undefined", <<>>), Def("y", Nu(1)), Def("z", Nu(2))>>),
    App("if!", <<App("not", <<App("head", <<Seqn(<<Boolean(FALSE), Def("w", Nu(1))>>)>>)>>),
                 Sy("w"), Nu(2)>>),
    App("if!", <<App("eq", <<Sy("x"), Nu(10)>>), App("/", <<Nu(1), Nu(0)>>), Nu(2)>>),
    Seqn(<<Def("x", Nu(10)),
           App("if!", <<App("eq", <<Sy("x"), Nu(10)>>), App("/", <<Nu(1), Nu(0)>>), Nu(2)>>)>>),
    Seqn(<<Def("x", Nu(10)),
           App("if!", <<App("eq", <<Sy("x"), Nu(11)>>), App("/", <<Nu(1), Nu(0)>>), Sy("x")>>)>>)
}

\* heads that end in `!`: natives, a user function, a number, nothing
MacroPrograms == {
    App("foo!", <<App("undefined", <<>>)>>),
    Seqn(<<Def("n!", Nu(1)), App("n!", <<App("undefined", <<>>)>>)>>),
    Seqn(<<Defn("m!", <<"a">>, Sy("a")), App("m!", <<App("+", <<Nu(1), Nu(2)>>)>>)>>),
    Seqn(<<Defn("m", <<"a">>, Sy("a")), App("m", <<App("+", <<Nu(1), Nu(2)>>)>>)>>),
    App("def!", <<App("+", <<Nu(1), Nu(2)>>), Nu(1)>>),
    App("debug", <<App("+", <<Nu(1), Nu(2)>>)>>),
    App("debug", <<Qu(App("+", <<Nu(1), Nu(2)>>))>>),
    App("undefined", <<Def("x", Nu(1)), App("+", <<Nu(1), Boolean(TRUE)>>)>>)
}

\* heads that are not callable: unbound, bound to a number, not a symbol
DispatchPrograms == {
    App("undefined_name", <<>>),
    Ap(<<Nu(1), Nu(2), Nu(3)>>),
    Ap(<<String("a"), Nu(1)>>),
    Ap(<<Boolean(TRUE)>>),
    Ap(<<Qu(Sy("f")), Nu(1)>>),
    Ap(<<Fn(<<"a">>, Sy("a")), Nu(1)>>),
    Ap(<<>>),
    App("f", <<Def("f", Nu(1))>>),
    Seqn(<<Defn("f", <<"a">>, Sy("a")), App("f", <<Def("f", Nu(1))>>)>>),
    Seqn(<<Def("f", Nu(1)), App("f", <<Defn("f", <<"a">>, Sy("a"))>>)>>),
    Seqn(<<Def("n", String("a")), App("n", <<App("undefined", <<>>)>>)>>),
    App("MAX_INT", <<Nu(1)>>)
}

\* quoted values: a symbol, a call, a quoted value, a number
QuotedValues == {
    Sy("x"), Sy("undefined"), App("+", <<Nu(1), Nu(2)>>), App("undefined", <<>>),
    Qu(Sy("x")), Qu(Qu(Nu(1))), Nu(1), Ap(<<>>), Def("q", Nu(1)),
    App("clear_scope", <<>>)
}
QuotePrograms ==
    {Qu(v) : v \in QuotedValues}
    \cup {Seqn(<<Def("x", Nu(1)), Qu(v), Sy("x")>>) : v \in QuotedValues}
    \cup {App("eval", <<Qu(App("+", <<Nu(1), Nu(2)>>))>>),
          App("eval", <<Qu(Qu(Sy("x")))>>)}

\* a function whose body reads a name it does not bind
DefH == Defn("h", <<"a">>, App("+", <<Sy("a"), Sy("z")>>))
RebindAfterDefinition ==
    Seqn(<<Def("z", Nu(1)), DefH, Def("z", Nu(2)), App("h", <<Nu(10)>>)>>)
BindAfterDefinition == Seqn(<<DefH, Def("z", Nu(5)), App("h", <<Nu(1)>>)>>)
BindInCaller ==
    Seqn(<<DefH, Defn("g2", <<"z">>, App("h", <<Nu(1)>>)), App("g2", <<Nu(7)>>)>>)
BindInArgument == Seqn(<<DefH, App("h", <<Seqn(<<Def("z", Nu(3)), Nu(4)>>)>>)>>)
ScopingPrograms == {
    RebindAfterDefinition, BindAfterDefinition, BindInCaller, BindInArgument,
    Seqn(<<DefH, App("h", <<Nu(1)>>)>>),
    Seqn(<<DefH, App("h", <<Def("z", Nu(3))>>)>>),
    Seqn(<<Defn("dup", <<"a", "a">>, Sy("a")), App("dup", <<Nu(1), Nu(2)>>)>>),
    Seqn(<<Def("z", Nu(1)), DefH, App("map", <<App("h", <<>>), Seqn(<<Nu(1), Nu(2)>>)>>)>>)
}

\* the operations given to fold: a quoted native name, an under-saturated
\* native, an anonymous function, a user function by name
FoldOps == {
    Qu(Sy("-")), App("-", <<>>),
    Fn(<<"p", "q">>, App("-", <<Sy("p"), Sy("q")>>)),
    Qu(Sy("max")), App("/", <<>>)
}
FoldLists == {<<>>, <<Nu(1)>>, <<Nu(1), Nu(2)>>, <<Nu(1), Nu(0), Nu(2)>>}
FoldPrograms ==
    {App("fold", <<op, Nu(10), Seqn(l)>>) : op \in FoldOps, l \in FoldLists}
    \cup {
        Seqn(<<Defn("sub2", <<"p", "q">>, App("-", <<Sy("p"), Sy("q")>>)),
               App("fold", <<Sy("sub2"), Nu(10), Seqn(<<Nu(1), Nu(2)>>)>>)>>),
        App("fold", <<Qu(Sy("undefined")), Nu(0), Seqn(<<Nu(1)>>)>>),
        App("fold", <<Qu(Sy("undefined")), Nu(0), Seqn(<<>>)>>),
        App("fold", <<Sy("-"), Nu(0), Seqn(<<Nu(1)>>)>>),
        App("fold", <<Qu(Sy("-")), Nu(0), Nu(5)>>),
        App("fold", <<Qu(Sy("-")), Boolean(TRUE), Seqn(<<Nu(1)>>)>>),
        App("fold", <<Qu(Sy("push")), Qu(Ap(<<>>)), Seqn(<<Nu(1), Nu(2)>>)>>),
        App("fold", <<App("push", <<>>), Qu(Ap(<<>>)), Seqn(<<Nu(1), Nu(2)>>)>>),
        App("fold", <<Qu(Sy("push")), Qu(Ap(<<Nu(1)>>)), Seqn(<<Nu(2)>>)>>),
        App("fold", <<App("push", <<>>), Qu(Ap(<<Nu(1)>>)), Seqn(<<Nu(2)>>)>>),
        App("fold", <<Qu(Sy("push")), Qu(Ap(<<>>)), Qu(Ap(<<Seqn(<<Nu(1)>>)>>))>>),
        App("fold", <<Qu(Sy("def!")), Qu(Sy("x")), Seqn(<<Nu(1)>>)>>),
        App("fold", <<Qu(Sy("def!")), Qu(Sy("x")), Seqn(<<Nu(1), Nu(2)>>)>>),
        Seqn(<<Def("x", Nu(1)),
               App("fold", <<Qu(Sy("clear_scope")), Nu(0), Seqn(<<Nu(1), Nu(2)>>)>>),
               Sy("x")>>)
    }

\* the operations given to map, on lists of zero to three elements
MapOps == {
    Qu(Sy("to_string")), App("to_string", <<>>), App("+", <<Nu(2)>>),
    Fn(<<"v">>, App("*", <<Sy("v"), Sy("v")>>))
}
MapLists == {<<>>, <<Nu(3)>>, <<Nu(3), Nu(1)>>, <<Nu(3), Nu(1), Nu(2)>>}
MapPrograms ==
    {App("map", <<op, Seqn(l)>>) : op \in MapOps, l \in MapLists}
    \cup {
        Seqn(<<Defn("twice", <<"v">>, App("+", <<Sy("v"), Sy("v")>>)),
               App("map", <<Sy("twice"), Seqn(<<Nu(1), Nu(2)>>)>>)>>),
        App("map", <<Qu(Sy("undefined")), Seqn(<<>>)>>),
        App("map", <<Qu(Sy("undefined")), Seqn(<<Nu(1)>>)>>),
        App("map", <<Qu(Sy("not")), Seqn(<<Boolean(TRUE), Nu(1), Boolean(FALSE)>>)>>),
        App("map", <<Qu(Sy("not")), Boolean(TRUE)>>),
        App("map", <<Qu(Sy("len")), Qu(Ap(<<Seqn(<<Nu(1), Nu(2)>>)>>))>>),
        App("map", <<App("len", <<>>), Qu(Ap(<<Seqn(<<Nu(1), Nu(2)>>)>>))>>),
        App("map", <<Qu(Sy("len")), Qu(Ap(<<Ap(<<Nu(1), Nu(2)>>)>>))>>),
        Seqn(<<Def("x", Nu(5)), App("map", <<Qu(Sy("debug")), Qu(Ap(<<Sy("x")>>))>>)>>),
        Seqn(<<Def("x", Nu(5)), App("map", <<App("debug", <<>>), Qu(Ap(<<Sy("x")>>))>>)>>),
        App("map", <<Qu(Sy("def!")), Qu(Ap(<<Sy("x")>>))>>),
        Seqn(<<Def("x", Nu(1)),
               App("map", <<Qu(Sy("clear_scope")), Seqn(<<Nu(1), Nu(2)>>)>>), Sy("x")>>)
    }

\* tests::test_fold, test_map and test_function_call: quoted operation lists
TestFold ==
    App("fold", <<Qu(Ap(<<Sy("+")>>)), Nu(1), Qu(Ap(<<Nu(1), Nu(2), Nu(3)>>))>>)
TestMap ==
    App("map", <<Qu(Ap(<<Sy("+"), Nu(2)>>)), Qu(Ap(<<Nu(1), Nu(2), Nu(3)>>))>>)
TestFunctionCall ==
    Seqn(<<App("let", <<Qu(Sy("add2")), Qu(Ap(<<Sy("+"), Nu(2)>>))>>),
           App("map", <<Sy("add2"), Seqn(<<Nu(1), Nu(2), Nu(3)>>)>>)>>)
QuotedOperationPrograms == {
    TestFold, TestMap, TestFunctionCall,
    App("fold", <<Qu(Ap(<<Sy("-")>>)), Nu(10), Qu(Ap(<<Nu(1), Nu(2)>>))>>),
    App("fold", <<Qu(Ap(<<Sy("+")>>)), Nu(1), Qu(Ap(<<>>))>>),
    App("map", <<Qu(Ap(<<Sy("-"), Nu(2)>>)), Qu(Ap(<<Nu(1)>>))>>),
    App("map", <<Qu(Ap(<<Sy("+"), Nu(2)>>)), Qu(Ap(<<>>))>>),
    Seqn(<<Def("add2", Qu(Ap(<<Sy("+"), Nu(2)>>))),
           App("map", <<Sy("add2"), Seqn(<<Nu(1), Nu(2), Nu(3)>>)>>)>>),
    Seqn(<<Def("add2", Ap(<<Sy("+"), Nu(2)>>)),
           App("map", <<Sy("add2"), Seqn(<<Nu(1), Nu(2), Nu(3)>>)>>)>>)
}

\* binary natives on arguments that are not numbers, and on numbers at the
\* ends of the integer range
ArgumentTypePrograms == {
    App("+", <<Nu(1), String("a")>>),
    App("+", <<String("a"), Nu(1)>>),
    App("+", <<String("a"), Boolean(TRUE)>>),
    App("<", <<Boolean(TRUE), Nu(1)>>),
    App("<", <<Nu(1), Qu(Ap(<<Nu(1)>>))>>),
    App("eq", <<Fn(<<"a">>, Sy("a")), Nu(1)>>),
    App("max", <<Nu(1), App("print_scope", <<>>)>>),
    App("+", <<Qu(Qu(Nu(1))), Nu(2)>>),
    App("-", <<Nu(1), Qu(Qu(String("a")))>>),
    App("*", <<Qu(Sy("x")), Nu(2)>>),
    App("+", <<App("-", <<Nu(1), Nu(2)>>), String("a")>>),
    App("+", <<Nu(1), Nu(2), String("a")>>),
    App("+", <<Sy("MAX_INT"), Nu(1)>>),
    App("-", <<Sy("MIN_INT"), Nu(1)>>),
    App("*", <<Sy("MAX_INT"), Nu(2)>>),
    App("/", <<Sy("MIN_INT"), Nu(-1)>>),
    App("%", <<Sy("MIN_INT"), Nu(-1)>>),
    App("/", <<Nu(-7), Nu(2)>>),
    App("%", <<Nu(-7), Nu(2)>>),
    App("mod", <<Nu(1), Nu(0)>>),
    App("and", <<Boolean(TRUE), Nu(1)>>),
    App("or", <<Nu(0), Boolean(TRUE)>>),
    App("and", <<Boolean(TRUE), Boolean(FALSE)>>),
    App("not", <<Nu(1)>>),
    App("gtq", <<Nu(2), Nu(2)>>)
}

\* natives given an argument of the wrong kind, one slot at a time
SlotPrograms == {
    App("fold", <<Qu(Sy("-")), Nu(0), Nu(5)>>),
    App("fold", <<Fn(<<"p", "q">>, Sy("q")), Nu(0), String("a")>>),
    App("map", <<Qu(Sy("len")), Nu(5)>>),
    App("map", <<Fn(<<"p">>, Sy("p")), Boolean(TRUE)>>),
    App("push", <<Nu(1), Nu(2)>>),
    App("push", <<Qu(Ap(<<Nu(1)>>)), Nu(2)>>),
    App("fn!", <<Nu(1), Nu(1)>>),
    App("fn!", <<Ap(<<Nu(1)>>), Nu(1)>>),
    App("fn!", <<Ap(<<Sy("a"), Nu(1)>>), Sy("a")>>),
    App("def!", <<Nu(1), Nu(2)>>),
    App("defn!", <<Nu(1), Ap(<<Sy("a")>>), Sy("a")>>),
    App("defn!", <<Sy("f"), Nu(1), Sy("a")>>),
    App("defn!", <<Sy("f"), Ap(<<Nu(1)>>), Sy("a")>>),
    App("if!", <<Nu(1), Nu(2), Nu(3)>>),
    App("len", <<Nu(1)>>),
    App("head", <<String("a")>>),
    App("to_string", <<Boolean(TRUE)>>),
    App("print", <<Nu(1)>>)
}

\* calls one of whose arguments fails, followed by arguments that bind
FailingArgumentPrograms == {
    Seqn(<<Def("x", Nu(1)),
           App("+", <<App("undefined_name", <<>>), Seqn(<<Def("y", Nu(2))>>)>>),
           Def("z", Nu(3))>>),
    App("+", <<Nu(1), App("+", <<Nu(1), String("a")>>), Sy("undefined")>>),
    App("push", <<Sy("undefined"), Def("y", Nu(2))>>),
    App("debug", <<Seqn(<<Nu(1), Ap(<<Nu(1), Nu(2)>>), Def("y", Nu(2))>>)>>),
    Seqn(<<Defn("h", <<"a", "b">>, Def("w", Sy("a"))),
           App("h", <<Nu(1), Sy("undefined"), Def("y", Nu(2))>>),
           Def("z", Nu(3))>>),
    Seqn(<<Defn("h", <<"a">>, App("+", <<Sy("a"), Sy("undefined"), Def("y", Nu(2))>>)),
           App("h", <<Nu(1)>>), Def("z", Nu(3))>>),
    App("map", <<Fn(<<"p">>, App("+", <<Sy("p"), String("a"), Def("y", Nu(2))>>)),
                 Seqn(<<Nu(1), Nu(2)>>)>>),
    App("if!", <<Boolean(TRUE),
                 Seqn(<<App("not", <<Nu(1)>>), Def("y", Nu(2))>>), Nu(3)>>)
}

\* functions whose body calls the function itself
DefLoop == Defn("f", <<"x">>, App("f", <<Sy("x")>>))
DefCountdown ==
    Defn("c", <<"n">>,
         App("if!", <<App("eq", <<Sy("n"), Nu(0)>>), Nu(0),
                      App("c", <<App("-", <<Sy("n"), Nu(1)>>)>>)>>))
RecursionPrograms == {
    Seqn(<<DefLoop, App("f", <<Nu(1)>>)>>),
    Seqn(<<DefLoop, App("f", <<>>)>>),
    Seqn(<<DefCountdown, App("c", <<Nu(1)>>)>>),
    Seqn(<<DefCountdown, App("c", <<Nu(0)>>)>>)
}

\* division, remainder, head and tail at and around their faults
FaultPrograms == {
    App("head", <<Seqn(<<>>)>>),
    App("tail", <<Seqn(<<>>)>>),
    App("head", <<Qu(Ap(<<>>))>>),
    App("tail", <<Qu(Ap(<<>>))>>),
    App("head", <<Qu(Ap(<<Nu(1), Nu(2)>>))>>),
    App("tail", <<Qu(Ap(<<Nu(1)>>))>>),
    App("tail", <<Seqn(<<Nu(1), Nu(2), Nu(3)>>)>>),
    App("head", <<Seqn(<<Seqn(<<>>), Nu(2)>>)>>),
    App("head", <<App("tail", <<Seqn(<<Nu(1)>>)>>)>>),
    App("div", <<Nu(7), Nu(2)>>),
    App("mod", <<Nu(7), Nu(-2)>>),
    App("/", <<Nu(-7), Nu(-2)>>),
    App("/", <<Nu(0), Nu(5)>>),
    App("%", <<Nu(5), Nu(0)>>),
    App("div", <<Nu(0), Nu(0)>>),
    App("div", <<Sy("MIN_INT"), Nu(-1)>>),
    App("mod", <<Sy("MIN_INT"), Nu(-1)>>),
    App("/", <<Sy("MIN_INT"), Nu(1)>>),
    App("/", <<Sy("MAX_INT"), Nu(-1)>>),
    App("%", <<Sy("MIN_INT"), Nu(2)>>)
}

\* calls on more arguments than the callee needs
SurplusPrograms == {
    App("+", <<Nu(1), Nu(2), Def("x", Nu(3))>>),
    App("+", <<Nu(1), Nu(2), Nu(3)>>),
    App("/", <<Nu(4), Nu(2), Nu(0)>>),
    App("not", <<Boolean(TRUE), Nu(5)>>),
    App("len", <<Seqn(<<Nu(1)>>), Def("y", Nu(1))>>),
    App("head", <<Seqn(<<Nu(1)>>), Seqn(<<>>)>>),
    App("push", <<Seqn(<<Nu(1)>>), Nu(2), Nu(3)>>),
    App("debug", <<Nu(1), Def("y", Nu(1))>>),
    App("print_scope", <<Def("y", Nu(1))>>),
    App("+", <<Nu(1), Nu(2), App("undefined", <<>>)>>),
    App("+", <<Nu(1), String("a"), Nu(3)>>),
    Seqn(<<Defn("f", <<"a">>, Sy("a")), App("f", <<Nu(1), Def("z", Nu(3)), Nu(4)>>)>>),
    Seqn(<<Defn("k", <<>>, Nu(7)), App("k", <<Nu(1), Def("z", Nu(3))>>)>>),
    Seqn(<<Defn("f2", <<"a", "b">>, App("-", <<Sy("a"), Sy("b")>>)),
           App("f2", <<Nu(5), Nu(2), Nu(1)>>)>>),
    Seqn(<<Defn("f2", <<"a", "b">>, App("-", <<Sy("a"), Sy("b")>>)),
           Defn("app", <<"h">>, App("h", <<Nu(2), Nu(3), Def("z", Nu(3))>>)),
           App("app", <<App("f2", <<Nu(5)>>)>>)>>),
    App("fold", <<Fn(<<"p">>, Sy("p")), Nu(0), Seqn(<<Nu(1), Nu(2)>>)>>),
    App("map", <<Fn(<<>>, Nu(7)), Seqn(<<Nu(1), Nu(2)>>)>>),
    App("def!", <<Sy("x"), Nu(1), Def("y", Nu(2))>>),
    App("if!", <<Boolean(TRUE), Nu(1), Nu(2), Def("y", Nu(3))>>),
    App("fn!", <<Ap(<<Sy("a")>>), Sy("a"), Def("y", Nu(1))>>),
    App("defn!", <<Sy("g"), Ap(<<Sy("a")>>), Sy("a"), Def("y", Nu(1))>>),
    App("clear_scope", <<Def("x", Nu(1))>>),
    App("eval", <<Qu(App("clear_scope", <<>>)), Def("y", Nu(1))>>),
    App("eval", <<Qu(Def("w", Nu(1))), Def("y", Nu(1))>>),
    App("map", <<Qu(Sy("len")), Qu(Ap(<<Seqn(<<Nu(1)>>)>>)), Def("y", Nu(1))>>),
    App("fold", <<Qu(Sy("+")), Nu(0), Seqn(<<Nu(1), Nu(2)>>), Def("y", Nu(1))>>),
    App("concat", <<Nu(1), Nu(2), Def("y", Nu(1))>>)
}

\* names of natives and the name list, bound by the user and unbound, in
\* call position and in argument position
ShadowPrograms == {
    Seqn(<<Defn("+", <<"a", "b">>, Nu(0)), App("+", <<Nu(1), Nu(2)>>), Sy("+")>>),
    Seqn(<<Def("list", Nu(5)), Seqn(<<Nu(1), Nu(2)>>), Sy("list")>>),
    Seqn(<<Defn("list", <<"a">>, Nu(0)), Seqn(<<Nu(1), Nu(2)>>)>>),
    Seqn(<<Def("-", Nu(7)), App("-", <<Nu(5), Nu(2)>>), App("+", <<Sy("-"), Nu(1)>>)>>),
    Seqn(<<Defn("head", <<"l">>, Nu(0)), App("head", <<Seqn(<<Nu(4), Nu(5)>>)>>)>>),
    Seqn(<<Defn("def!", <<"a", "b">>, Nu(0)), Def("x", Nu(1)), Sy("x")>>),
    Seqn(<<Defn("if!", <<"a", "b", "c">>, Nu(9)),
           App("if!", <<Boolean(TRUE), Nu(1), Nu(2)>>)>>),
    Seqn(<<Defn("clear_scope", <<>>, Nu(1)), App("clear_scope", <<>>), Sy("MAX_INT")>>),
    Seqn(<<Defn("+", <<"a", "b">>, Nu(0)),
           App("fold", <<Sy("+"), Nu(5), Seqn(<<Nu(1), Nu(2)>>)>>),
           App("fold", <<Qu(Sy("+")), Nu(5), Seqn(<<Nu(1), Nu(2)>>)>>)>>),
    Seqn(<<Defn("not", <<"a">>, Sy("a")), App("not", <<Boolean(TRUE)>>),
           App("not", <<>>)>>),
    App("debug", <<Sy("+")>>),
    App("debug", <<Sy("list")>>),
    App("+", <<Sy("len"), Nu(1)>>),
    Seqn(<<Sy("def!")>>)
}

Programs ==
    BindingPrograms \cup FunctionPrograms \cup NativeCurryPrograms
    \cup CurryPrograms \cup FunctionHeadPrograms \cup ConcatPrograms
    \cup IfPrograms \cup MacroPrograms
    \cup DispatchPrograms \cup QuotePrograms \cup ScopingPrograms
    \cup FoldPrograms \cup MapPrograms \cup QuotedOperationPrograms
    \cup ArgumentTypePrograms \cup SlotPrograms
    \cup FailingArgumentPrograms \cup RecursionPrograms
    \cup FaultPrograms \cup SurplusPrograms \cup ShadowPrograms

(***************************************************************************)
(* The session loop of lisp_repl (main.rs, repl.rs).                       *)
(***************************************************************************)
NoInput == Void
NoResult == Ok(NoScope, Void, <<>>)

Init ==
    /\ scope = INITIAL_SCOPE
    /\ input = NoInput
    /\ before = INITIAL_SCOPE
    /\ result = NoResult
    /\ running = TRUE
    /\ inputs = 0
    /\ overflow_checks \in BOOLEAN

\* evaluate with a plausible fault: the input is evaluated in the default
\* scope
evaluate_in_default_scope(s, expr) ==
    LET r == eval(INITIAL_SCOPE, expr, MaxDepth)
    IN IF r.kind = "ok" THEN [r EXCEPT !.scope = with_context(r.scope, MAIN_CONTEXT)]
       ELSE r

\* repl::evaluate on the parsed input expr
evaluate(s, expr) ==
    LET r == eval(s, expr, MaxDepth)
    IN IF r.kind = "ok" THEN [r EXCEPT !.scope = with_context(r.scope, MAIN_CONTEXT)]
       ELSE r

Read(expr) ==
    /\ running
    /\ inputs < MaxInputs
    /\ input' = expr
    /\ before' = scope
    /\ result' = evaluate(scope, expr)
    /\ inputs' = inputs + 1
    /\ UNCHANGED overflow_checks

\* Ok((new_scope, result)): the session continues in the new scope
ReplOk ==
    \E expr \in Programs :
        /\ Read(expr)
        /\ result'.kind = "ok"
        /\ scope' = result'.scope
        /\ UNCHANGED running

\* Err(EvaluationError): the error is printed, the scope is kept
ReplError ==
    \E expr \in Programs :
        /\ Read(expr)
        /\ result'.kind = "err"
        /\ UNCHANGED <<scope, running>>

\* a panic inside eval ends the process
ReplAbort ==
    \E expr \in Programs :
        /\ Read(expr)
        /\ result'.kind = "panic"
        /\ running' = FALSE
        /\ UNCHANGED scope

\* Err(ReadlineError): CTRL-C or CTRL-D breaks the loop
ReplQuit ==
    /\ running
    /\ running' = FALSE
    /\ UNCHANGED <<scope, input, before, result, inputs, overflow_checks>>

Next == ReplOk \/ ReplError \/ ReplAbort \/ ReplQuit

Spec == Init /\ [][Next]_vars

(***************************************************************************)
(* A session of several inputs, each of them one of a few lines that bind, *)
(* rebind, fail, abort or clear the scope.                                 *)
(***************************************************************************)
SessionPrograms == {
    Def("x", Nu(1)),
    Def("x", Nu(2)),
    Def("MAX_INT", Nu(0)),
    Defn("f", <<"a">>, Sy("a")),
    App("+", <<Sy("x"), Nu(1)>>),
    Seqn(<<Def("y", Nu(1)), App("undefined", <<>>)>>),
    Seqn(<<Def("z", Nu(3)), App("+", <<Nu(1), String("a")>>)>>),
    Seqn(<<Def("y", Nu(1)), App("/", <<Nu(1), Nu(0)>>)>>),
    App("clear_scope", <<>>),
    Seqn(<<Def("y", Nu(1)), App("clear_scope", <<>>), Def("w", Nu(2))>>),
    Seqn(<<Defn("g", <<>>, App("clear_scope", <<>>)), App("g", <<>>)>>),
    App("map", <<Fn(<<"p">>, Seqn(<<App("clear_scope", <<>>), Def("v", Sy("p"))>>)),
                 Seqn(<<Nu(1)>>)>>),
    App("map", <<Qu(Sy("clear_scope")), Seqn(<<Nu(1)>>)>>)
}
\* what parse leaves unread behind the expression of a line
Rests == {"", ")"}
ParseError(message) == [e |-> "ParseError", message |-> message]

\* repl::unwrap_expression, then eval as repl::evaluate calls it
evaluate_line(s, expr, rest) ==
    IF rest = "" THEN evaluate(s, expr)
    ELSE Err(ParseError("Unexpected input: " \o rest), <<>>)

SessionRead(expr, rest) ==
    /\ running
    /\ inputs < MaxSessionInputs
    /\ input' = expr
    /\ before' = scope
    /\ result' = evaluate_line(scope, expr, rest)
    /\ inputs' = inputs + 1
    /\ UNCHANGED overflow_checks

\* Ok((new_scope, result)): the session continues in the new scope
SessionOk ==
    \E expr \in SessionPrograms :
        /\ SessionRead(expr, "")
        /\ result'.kind = "ok"
        /\ scope' = result'.scope
        /\ UNCHANGED running

\* SessionError with a plausible fault: the session continues in the scope
\* of the last evaluation that succeeded inside the input that failed
SessionError_partial_scope ==
    \E expr \in SessionPrograms, rest \in Rests :
        /\ SessionRead(expr, rest)
        /\ result'.kind = "err"
        /\ LET done == {i \in DOMAIN result'.log : result'.log[i].kind = "ok"}
               last == CHOOSE i \in done : \A j \in done : j <= i
           IN scope' = IF done = {} THEN scope
                       ELSE with_context(result'.log[last].out, MAIN_CONTEXT)
        /\ UNCHANGED running

\* Err(ParseError) and Err(EvaluationError): the error is printed, the
\* scope is kept
SessionError ==
    \E expr \in SessionPrograms, rest \in Rests :
        /\ SessionRead(expr, rest)
        /\ result'.kind = "err"
        /\ UNCHANGED <<scope, running>>

\* a panic inside eval ends the process
SessionAbort ==
    \E expr \in SessionPrograms :
        /\ SessionRead(expr, "")
        /\ result'.kind = "panic"
        /\ running' = FALSE
        /\ UNCHANGED scope

SessionNext == SessionOk \/ SessionError \/ SessionAbort \/ ReplQuit

SessionSpec == Init /\ [][SessionNext]_vars

(***************************************************************************)
(* Reading the history of the last evaluation.                             *)
(***************************************************************************)
Log == result.log
Entries == DOMAIN Log
\* the last entry that belongs to entry i
Last(i) == i + Log[i].size - 1
\* entry i is eval of a non-empty list whose head is a Symbol
IsSymbolCall(i) ==
    /\ Log[i].op = "eval"
    /\ Log[i].expr.t = "List"
    /\ Log[i].expr.l # <<>>
    /\ Log[i].expr.l[1].t = "Symbol"
    /\ Log[i].size > 1
\* ... and the head does not end in `!`, so that entry i + 1 is its eval_tail
IsStrictCall(i) == IsSymbolCall(i) /\ ~is_macro(Log[i].expr.l[1])
\* the entries of the calls of eval made directly by the eval_tail at entry t
RECURSIVE ArgumentsFrom(_, _)
ArgumentsFrom(j, last) ==
    IF j > last THEN <<>> ELSE <<j>> \o ArgumentsFrom(j + Log[j].size, last)
Arguments(t) == ArgumentsFrom(t + 1, Last(t))
\* clear_scope ran during entry i
Cleared(i) ==
    \E j \in i..Last(i) : Log[j].op = "call" /\ Log[j].atom = "clear_scope"
\* the evaluation at entry j bound name n (or bound it to another value)
Made(j, n) ==
    /\ Log[j].kind = "ok"
    /\ n \in DOMAIN Log[j].out.bindings
    /\ n \in DOMAIN Log[j].scope.bindings
           => Log[j].scope.bindings[n] # Log[j].out.bindings[n]
Names(i) == UNION {DOMAIN Log[j].out.bindings : j \in i..Last(i)}

(***************************************************************************)
(* C1                                                                      *)
(***************************************************************************)
\* the arguments of the strict call at entry i are evaluated left to right,
\* each in the scope the one before it returned
C1_Threaded(i) ==
    LET t == i + 1
        atom == Log[i].expr.l[1].s
        tail == Tail(Log[i].expr.l)
        args == Arguments(t)
    IN /\ Log[t].op = "eval_tail"
       /\ Log[t].scope = with_context(Log[i].scope, atom)
       /\ Len(args) <= Len(tail)
       /\ \A k \in DOMAIN args :
            /\ Log[args[k]].op = "eval"
            /\ Log[args[k]].expr = tail[k]
            /\ Log[args[k]].scope =
                  (IF k = 1 THEN Log[t].scope ELSE Log[args[k - 1]].out)
            /\ k < Len(args) => Log[args[k]].kind = "ok"
       /\ Log[t].kind = "ok" =>
            /\ Len(args) = Len(tail)
            /\ Log[t].val = List([k \in DOMAIN args |-> Log[args[k]].val])
            /\ Log[t].out = (IF args = <<>> THEN Log[t].scope
                             ELSE Log[args[Len(args)]].out)
\* a binding made by an argument is seen by the later ones and is returned
C1_Visible(i) ==
    LET args == Arguments(i + 1)
    IN \A k \in DOMAIN args : \A n \in Names(i) :
        Made(args[k], n) =>
            /\ \A j \in DOMAIN args : j > k => n \in DOMAIN Log[args[j]].scope.bindings
            /\ Log[i].kind = "ok" => n \in DOMAIN Log[i].out.bindings
C1_Example ==
    input = Seqn(<<Def("x", Nu(10)), App("+", <<Sy("x"), Nu(2)>>)>>) =>
        /\ result.kind = "ok"
        /\ result.val = List(<<Void, Number(12)>>)
        /\ has(result.scope, "x") /\ get(result.scope, "x") = Number(10)

\* C1 as claimed: in every call whose head symbol does not end in `!` the
\* arguments are evaluated left to right, each in the scope returned by the
\* one before, and every binding made by an argument is bound in the input
\* scope of every later argument and in the scope the call returns.
C1_AsClaimed ==
    /\ C1_Example
    /\ \A i \in Entries : IsStrictCall(i) => C1_Threaded(i) /\ C1_Visible(i)

\* C1 as amended: the same, where the binding made by an argument is
\* promised to stay visible and to be returned only for a call during which
\* clear_scope is not invoked.
C1_ArgumentsThreadScope ==
    /\ C1_Example
    /\ \A i \in Entries :
          IsStrictCall(i) =>
              /\ C1_Threaded(i)
              /\ ~Cleared(i) => C1_Visible(i)

\* a call whose first argument binds x and whose second argument reads it
C1_Witness ==
    /\ result.kind = "ok"
    /\ \E i \in Entries :
          /\ IsStrictCall(i)
          /\ ~Cleared(i)
          /\ Len(Arguments(i + 1)) = 2
          /\ Made(Arguments(i + 1)[1], "x")
          /\ Log[Arguments(i + 1)[2]].val = Number(12)
          /\ has(Log[i].out, "x")

(***************************************************************************)
(* C2                                                                      *)
(***************************************************************************)
\* entry i is an application of a user-defined Function by eval_function
IsApplication(i) == Log[i].op = "eval_function"
Saturated(i) == Len(Log[i].arguments) >= Len(Log[i].parameters)

\* C2: every saturated application of a user-defined Function that returns
\* gives back exactly the bindings of the scope that entered it: parameters
\* and bindings made by the body are not in the returned scope, and a name
\* a parameter shadowed has its former value.
C2_ApplicationRestoresScope ==
    \A i \in Entries :
        IsApplication(i) /\ Saturated(i) /\ Log[i].kind = "ok" =>
            /\ Log[i].out.bindings = Log[i].scope.bindings
            /\ Log[i].out.context = Log[i].scope.context

\* a saturated application whose body bound y and rebound the parameter x,
\* which shadows an x of the caller
C2_Witness ==
    \E i \in Entries :
        /\ IsApplication(i) /\ Saturated(i) /\ Log[i].kind = "ok"
        /\ Log[i].parameters = <<"x">>
        /\ has(Log[i].scope, "x") /\ get(Log[i].scope, "x") # Log[i].arguments[1]
        /\ Log[i + 1].op = "eval" /\ Log[i + 1].expr = Log[i].body
        /\ has(Log[i + 1].out, "y") /\ ~has(Log[i].out, "y")
        /\ get(Log[i + 1].out, "x") # get(Log[i].out, "x")

(***************************************************************************)
(* C3                                                                      *)
(***************************************************************************)
\* the Function values inside the value v
RECURSIVE FunctionsIn(_)
FunctionsIn(v) ==
    CASE v.t = "List" -> UNION {FunctionsIn(v.l[k]) : k \in DOMAIN v.l}
      [] v.t = "Unevaluated" -> FunctionsIn(v.q)
      [] v.t = "Function" ->
            {v} \cup FunctionsIn(v.body)
                \cup UNION {FunctionsIn(v.applied[k]) : k \in DOMAIN v.applied}
      [] OTHER -> {}
\* the Function values the evaluation at entry i produced
Produced(i) ==
    FunctionsIn(Log[i].val)
    \cup UNION {FunctionsIn(Log[i].out.bindings[n]) : n \in DOMAIN Log[i].out.bindings}

\* C3 as claimed: every Function an evaluation produces, as its value or
\* bound in the scope it returns, has fewer applied values than parameters,
\* functions declared with an empty parameter list included.
C3_AsClaimed ==
    \A i \in Entries :
        Log[i].op = "eval" /\ Log[i].kind = "ok" =>
            \A fn \in Produced(i) : Len(fn.applied) < Len(fn.parameters)

\* C3 as amended: every Function an evaluation produces has fewer applied
\* values than parameters, except a Function declared with an empty
\* parameter list, which has no applied values and no parameters.
C3_FunctionsAreUnsaturated ==
    \A i \in Entries :
        Log[i].op = "eval" /\ Log[i].kind = "ok" =>
            \A fn \in Produced(i) :
                \/ Len(fn.applied) < Len(fn.parameters)
                \/ fn.parameters = <<>> /\ fn.applied = <<>>

\* an evaluation whose value is a partially applied user Function
C3_Witness ==
    /\ result.kind = "ok"
    /\ \E fn \in FunctionsIn(result.val) :
          /\ fn.applied # <<>>
          /\ Len(fn.applied) < Len(fn.parameters)
          /\ fn.parameters = <<"a", "b">>

(***************************************************************************)
(* C4                                                                      *)
(***************************************************************************)
\* entry i is eval of (def! name e)
IsDefinition(i) ==
    /\ Log[i].op = "eval"
    /\ Log[i].expr.t = "List"
    /\ Len(Log[i].expr.l) = 3
    /\ Log[i].expr.l[1] = Symbol("def!")
    /\ Log[i].expr.l[2].t = "Symbol"
    /\ Log[i].size > 1

\* C4: (def! name e) returns Unit and binds name to the value that e
\* evaluates to in the scope before the def!.
C4_AsClaimed ==
    \A i \in Entries :
        IsDefinition(i) =>
            LET e == eval(Log[i].scope, Log[i].expr.l[3], MaxDepth)
            IN e.kind = "ok" =>
                /\ Log[i].kind = "ok"
                /\ Log[i].val = Void
                /\ has(Log[i].out, Log[i].expr.l[2].s)
                /\ get(Log[i].out, Log[i].expr.l[2].s) = e.val

(***************************************************************************)
(* C5                                                                      *)
(***************************************************************************)
\* entry i is an under-saturated call of a native
IsPartialNative(i) ==
    /\ Log[i].op = "call"
    /\ Len(Log[i].values) < required_arguments_count[Log[i].atom]
\* the list (p a0 ... a{n-1})
Reinvokes(p, n) ==
    List(<<Symbol(p)>> \o [k \in 1..n |-> Symbol("a" \o ToString(k - 1))])

\* C5: an under-saturated call of the native p yields a Function whose body
\* is (p a0 ... a{n-1}) and whose applied values are the arguments given,
\* whatever the argument expressions are.
C5_AsClaimed ==
    \A i \in Entries :
        IsPartialNative(i) =>
            /\ Log[i].kind = "ok"
            /\ Log[i].val.t = "Function"
            /\ Log[i].val.applied = Log[i].values
            /\ Log[i].val.body =
                  Reinvokes(Log[i].atom, required_arguments_count[Log[i].atom])

(***************************************************************************)
(* C6                                                                      *)
(***************************************************************************)
\* (op a) for a binary native op, and the user function of CurryUser
NativePartial(op, a) ==
    Function(<<"a0", "a1">>, App(op, <<Sy("a0"), Sy("a1")>>), <<Nu(a)>>)
UserPartial(op, a) ==
    Function(<<"p", "q">>, App(op, <<Sy("p"), Sy("q")>>), <<Nu(a)>>)
\* every evaluation of expr in the history returned the value v
Yields(expr, v) ==
    \A i \in Entries :
        Log[i].op = "eval" /\ Log[i].expr = expr =>
            Log[i].kind = "ok" /\ Log[i].val = v
\* every evaluation of expr in the history ended as the outcome r did
EndsAs(expr, r) ==
    \A i \in Entries :
        Log[i].op = "eval" /\ Log[i].expr = expr /\ Log[i].size > 1 =>
            Log[i].kind = r.kind /\ Log[i].val = r.val

\* C6: for a binary native op and integers a, b, (op a) is a Function of two
\* parameters with applied = [a], and applying it to b gives the value of
\* (op a b); the same steps on a user function of two parameters with the
\* body (op p q) give a Function with applied = [a] and the same value.
C6_CurryingSymmetry ==
    \A op \in CurryOps : \A a \in CurryLeft : \A b \in CurryRight :
        LET direct == eval(before, App(op, <<Nu(a), Nu(b)>>), MaxDepth)
        IN /\ input = CurryNative(op, a, b) =>
                /\ Yields(App(op, <<Nu(a)>>), NativePartial(op, a))
                /\ EndsAs(Ap(<<NativePartial(op, a), Nu(b)>>), direct)
                /\ direct.kind = "ok" =>
                      /\ result.kind = "ok"
                      /\ result.val = List(<<NativePartial(op, a),
                                             List(<<direct.val>>), direct.val>>)
                /\ op = "+" /\ a = 3 /\ b = 4 => direct.val = Number(7)
           /\ input = CurryUser(op, a, b) =>
                /\ Yields(App("f2", <<Nu(a)>>), UserPartial(op, a))
                /\ EndsAs(Ap(<<UserPartial(op, a), Nu(b)>>), direct)
                /\ direct.kind = "ok" =>
                      /\ result.kind = "ok"
                      /\ result.val = List(<<Void, UserPartial(op, a),
                                             List(<<direct.val>>), direct.val>>)

\* (+ 3) was applied to 4 and gave 7
C6_Witness ==
    /\ input = CurryNative("+", 3, 4)
    /\ result.kind = "ok"
    /\ result.val.l[1].applied = <<Number(3)>>
    /\ result.val.l[2] = List(<<Number(7)>>)
    /\ \E i \in Entries :
          /\ Log[i].op = "eval"
          /\ Log[i].expr = Ap(<<NativePartial("+", 3), Nu(4)>>)
          /\ Log[i].val = Number(7)

(***************************************************************************)
(* C7                                                                      *)
(***************************************************************************)
\* entry i is a call whose head symbol is looked up in the scope
IsUserCall(i) ==
    /\ IsSymbolCall(i)
    /\ Log[i].expr.l[1].s # "list"
    /\ Log[i].expr.l[1].s \notin INTERNAL_SYMBOLS_TABLE
    /\ IsStrictCall(i) => Log[i + 1].kind = "ok"
\* the scope and the argument values after the tail of the call at entry i
\* was dealt with, and the entry that follows
AfterTail(i) ==
    IF IsStrictCall(i) THEN Log[i + 1].out
    ELSE with_context(Log[i].scope, Log[i].expr.l[1].s)
Given(i) ==
    IF IsStrictCall(i) THEN Log[i + 1].val.l ELSE Tail(Log[i].expr.l)
Callee(i) == IF IsStrictCall(i) THEN Last(i + 1) + 1 ELSE i + 1

\* C7: a call of a user Function with parameters P and applied values A on
\* the evaluated arguments G, where Len(A) + Len(G) < Len(P), returns the
\* Function with the same parameters and body and applied = A \o G, in a
\* scope with the bindings of the scope after the arguments, and nothing is
\* evaluated after the arguments.
C7_PartialApplication ==
    \A i \in Entries :
        /\ IsApplication(i) /\ ~Saturated(i) =>
              /\ Log[i].kind = "ok"
              /\ Log[i].val = Function(Log[i].parameters, Log[i].body, Log[i].arguments)
              /\ Log[i].out = Log[i].scope
              /\ Log[i].size = 1
        /\ IsUserCall(i) /\ has(AfterTail(i), Log[i].expr.l[1].s) =>
              LET fn == get(AfterTail(i), Log[i].expr.l[1].s)
                  j == Callee(i)
              IN fn.t = "Function"
                 /\ Len(fn.applied) + Len(Given(i)) < Len(fn.parameters) =>
                    /\ Log[j].op = "eval_function"
                    /\ Log[j].scope = AfterTail(i)
                    /\ Log[j].arguments = fn.applied \o Given(i)
                    /\ Last(i) = j
                    /\ Log[i].kind = "ok"
                    /\ Log[i].val = Function(fn.parameters, fn.body,
                                             fn.applied \o Given(i))
                    /\ Log[i].out.bindings = AfterTail(i).bindings

\* a Function of three parameters, applied to 1 before, was called on 2; its
\* body would have failed
C7_Witness ==
    /\ result.kind = "ok"
    /\ \E i \in Entries :
          /\ IsUserCall(i) /\ has(AfterTail(i), Log[i].expr.l[1].s)
          /\ get(AfterTail(i), Log[i].expr.l[1].s).t = "Function"
          /\ get(AfterTail(i), Log[i].expr.l[1].s).applied = <<Number(1)>>
          /\ Given(i) = <<Number(2)>>
          /\ Log[i].val.t = "Function"
          /\ Log[i].val.applied = <<Number(1), Number(2)>>
          /\ eval(Log[i].scope, Log[i].val.body, MaxDepth).kind = "err"

(***************************************************************************)
(* C8                                                                      *)
(***************************************************************************)
\* entry i is eval of a list whose head is a Function value
IsFunctionHead(i) ==
    /\ Log[i].op = "eval"
    /\ Log[i].expr.t = "List"
    /\ Log[i].expr.l # <<>>
    /\ Log[i].expr.l[1].t = "Function"
    /\ Log[i].size > 1

\* C8: when the head of a list is a Function value, the tail elements are
\* evaluated left to right under the context anonymous, and the Function is
\* applied to its applied values followed by the evaluated tail.
C8_AsClaimed ==
    \A i \in Entries :
        IsFunctionHead(i) =>
            LET head == Log[i].expr.l[1]
                t == eval_tail(with_context(Log[i].scope, "anonymous"),
                               Tail(Log[i].expr.l), MaxDepth)
            IN /\ t.kind # "ok" => Log[i].kind = t.kind /\ Log[i].err = t.err
               /\ t.kind = "ok" =>
                    \E j \in i..Last(i) :
                        /\ Log[j].op = "eval_function"
                        /\ Log[j].parameters = head.parameters
                        /\ Log[j].body = head.body
                        /\ Log[j].arguments = head.applied \o t.val.l

(***************************************************************************)
(* C9                                                                      *)
(***************************************************************************)
\* entry i is eval of (concat a b)
IsConcat(i) ==
    /\ Log[i].op = "eval"
    /\ Log[i].expr.t = "List"
    /\ Len(Log[i].expr.l) = 3
    /\ Log[i].expr.l[1] = Symbol("concat")
    /\ Log[i].size > 1

\* C9: (concat a b), where a evaluates to L and then b to R, returns without
\* error the concatenation of L and R when both are sequences, L with R
\* appended or R with L prepended when one is, and (L R) when neither is.
C9_AsClaimed ==
    \A i \in Entries :
        IsConcat(i) =>
            LET left == eval(with_context(Log[i].scope, "concat"),
                             Log[i].expr.l[2], MaxDepth)
                right == eval(left.scope, Log[i].expr.l[3], MaxDepth)
            IN left.kind = "ok" /\ right.kind = "ok" =>
                  /\ Log[i].kind = "ok"
                  /\ Log[i].val = concat(left.val, right.val)

(***************************************************************************)
(* C10                                                                     *)
(***************************************************************************)
\* entry i is eval of (if! cond then else)
IsIf(i) ==
    /\ Log[i].op = "eval"
    /\ Log[i].expr.t = "List"
    /\ Len(Log[i].expr.l) = 4
    /\ Log[i].expr.l[1] = Symbol("if!")
    /\ Log[i].size > 1
\* entry i ends as entry j does, and with it
EndsWith(i, j) ==
    /\ Last(i) = Last(j)
    /\ Log[i].kind = Log[j].kind
    /\ Log[i].val = Log[j].val
    /\ Log[i].err = Log[j].err
    /\ Log[i].out = Log[j].out

\* C10: (if! cond then else) evaluates cond once and then exactly one
\* branch, then when cond is true and else when it is false, and nothing
\* else; a cond that is not a Boolean gives InvalidArgumentType at position
\* 0 and no branch is evaluated.
C10_IfEvaluatesOneBranch ==
    \A i \in Entries :
        IsIf(i) =>
            LET c == i + 2
                b == Last(c) + 1
            IN /\ Log[i + 1].op = "call" /\ Log[i + 1].atom = "if!"
               /\ Log[i + 1].values = Tail(Log[i].expr.l)
               /\ Log[c].op = "eval"
               /\ Log[c].expr = Log[i].expr.l[2]
               /\ Log[c].scope = with_context(Log[i].scope, "if!")
               /\ IF Log[c].kind # "ok" THEN EndsWith(i, c)
                  ELSE IF Log[c].val.t # "Boolean"
                  THEN /\ Last(i) = Last(c)
                       /\ Log[i].kind = "err"
                       /\ Log[i].err = InvalidArgumentType("if!", "Boolean",
                                                           to_type(Log[c].val), 0)
                  ELSE /\ Log[b].op = "eval"
                       /\ Log[b].expr = (IF Log[c].val.b THEN Log[i].expr.l[3]
                                         ELSE Log[i].expr.l[4])
                       /\ Log[b].scope = Log[c].out
                       /\ EndsWith(i, b)

\* the then branch bound y and the else branch, which would fail, did not run
C10_Witness ==
    /\ input = App("if!", <<App("<", <<Nu(1), Nu(2)>>), Def("y", Nu(1)),
                            App("undefined", <<>>)>>)
    /\ result.kind = "ok"
    /\ has(result.scope, "y")
    /\ \A i \in Entries :
          Log[i].op = "eval" => Log[i].expr # App("undefined", <<>>)

(***************************************************************************)
(* C11                                                                     *)
(***************************************************************************)
\* entry i is eval of a non-empty list whose head is a Symbol
IsSymbolHead(i) ==
    /\ Log[i].op = "eval"
    /\ Log[i].expr.t = "List"
    /\ Log[i].expr.l # <<>>
    /\ Log[i].expr.l[1].t = "Symbol"
\* the name ends in `!`
EndsInBang(name) ==
    Len(name) >= 1 /\ SubSeq(name, Len(name), Len(name)) = "!"
\* entry j is the callee of the call of atom, entered in scope s on values
IsCallee(j, atom, s, values) ==
    /\ Log[j].op \in {"call", "eval_function"}
    /\ Log[j].scope = s
    /\ Log[j].op = "call" => Log[j].atom = atom /\ Log[j].values = values
    /\ Log[j].op = "eval_function" =>
          /\ has(s, atom)
          /\ Log[j].arguments = get(s, atom).applied \o values
\* the call at entry i hands the raw tail to the callee: nothing is
\* evaluated before the callee is entered
RawTail(i) ==
    LET atom == Log[i].expr.l[1].s
        tail == Tail(Log[i].expr.l)
    IN IF Log[i].size = 1 THEN Log[i].kind # "ok"
       ELSE IsCallee(i + 1, atom, with_context(Log[i].scope, atom), tail)
\* the call at entry i evaluates every tail element, and only then enters
\* the callee, on the values
EvaluatedTail(i) ==
    LET atom == Log[i].expr.l[1].s
        tail == Tail(Log[i].expr.l)
        t == i + 1
        args == Arguments(t)
    IN IF Log[i].size = 1 THEN Log[i].kind = "panic"
       ELSE /\ Log[t].op = "eval_tail"
            /\ Log[t].tail = tail
            /\ Log[t].scope = with_context(Log[i].scope, atom)
            /\ \A k \in DOMAIN args :
                  k <= Len(tail) /\ Log[args[k]].op = "eval"
                  /\ Log[args[k]].expr = tail[k]
            /\ IF Log[t].kind # "ok" THEN Last(i) = Last(t)
               ELSE /\ Len(args) = Len(tail)
                    /\ Log[t].val.l = [k \in DOMAIN args |-> Log[args[k]].val]
                    /\ Last(i) > Last(t) =>
                          IsCallee(Last(t) + 1, atom, Log[t].out, Log[t].val.l)

\* C11: a call whose head symbol ends in `!`, native or user-defined, enters
\* its callee on the raw tail and evaluates no tail element before; a call
\* whose head symbol does not end in `!` evaluates every tail element before
\* its callee is entered on the values.
C11_TailEvaluationByName ==
    \A i \in Entries :
        IsSymbolHead(i) =>
            IF EndsInBang(Log[i].expr.l[1].s) THEN RawTail(i) ELSE EvaluatedTail(i)

\* the user function m! was entered on the raw list (+ 1 2) and returned it
C11_Witness ==
    /\ input = Seqn(<<Defn("m!", <<"a">>, Sy("a")),
                      App("m!", <<App("+", <<Nu(1), Nu(2)>>)>>)>>)
    /\ result.kind = "ok"
    /\ result.val.l[2] = App("+", <<Nu(1), Nu(2)>>)
    /\ \E i \in Entries :
          /\ Log[i].op = "eval_function"
          /\ Log[i].arguments = <<App("+", <<Nu(1), Nu(2)>>)>>

(***************************************************************************)
(* C12                                                                     *)
(***************************************************************************)
\* entry i is a call whose head symbol is neither list nor a native, and
\* its arguments, if they were to be evaluated, evaluated successfully
IsLookupCall(i) ==
    /\ IsSymbolHead(i)
    /\ Log[i].expr.l[1].s # "list"
    /\ Log[i].expr.l[1].s \notin INTERNAL_SYMBOLS_TABLE
    /\ ~EndsInBang(Log[i].expr.l[1].s) =>
          Log[i].size > 1 /\ Log[i + 1].kind = "ok"
\* the scope and the values after the tail of the call at entry i, and the
\* last entry that belongs to the tail
ScopeAfterTail(i) ==
    IF EndsInBang(Log[i].expr.l[1].s)
    THEN with_context(Log[i].scope, Log[i].expr.l[1].s)
    ELSE Log[i + 1].out
ValuesAfterTail(i) ==
    IF EndsInBang(Log[i].expr.l[1].s) THEN Tail(Log[i].expr.l)
    ELSE Log[i + 1].val.l
LastOfTail(i) == IF EndsInBang(Log[i].expr.l[1].s) THEN i ELSE Last(i + 1)
\* entry i is eval of a non-empty list whose head cannot be called
IsUncallableHead(i) ==
    /\ Log[i].op = "eval"
    /\ Log[i].expr.t = "List"
    /\ Log[i].expr.l # <<>>
    /\ Log[i].expr.l[1].t \notin {"Symbol", "Function"}
\* the evaluation at entry i ran out of call stack before it started
Exhausted(i) ==
    Log[i].kind = "panic" /\ Log[i].err.why = "stack_overflow" /\ Log[i].size = 1

\* C12: a call whose head symbol is neither list nor a native, once its
\* arguments are evaluated, applies the Function the symbol is bound to,
\* fails with InvalidFunctionCall on the original list when the symbol is
\* bound to anything else, and with UnknownIdentifier of the symbol when it
\* is unbound; a list whose head is neither a Symbol nor a Function fails
\* with InvalidFunctionCall on the original list.
C12_DispatchErrors ==
    \A i \in Entries :
        /\ IsLookupCall(i) =>
              LET atom == Log[i].expr.l[1].s
                  s == ScopeAfterTail(i)
                  j == LastOfTail(i) + 1
              IN IF ~has(s, atom)
                 THEN /\ Log[i].kind = "err"
                      /\ Log[i].err = UnknownIdentifier(atom)
                      /\ Last(i) = LastOfTail(i)
                 ELSE IF get(s, atom).t # "Function"
                 THEN /\ Log[i].kind = "err"
                      /\ Log[i].err = InvalidFunctionCall(Log[i].expr.l)
                      /\ Last(i) = LastOfTail(i)
                 ELSE /\ Log[j].op = "eval_function"
                      /\ Log[j].scope = s
                      /\ Log[j].parameters = get(s, atom).parameters
                      /\ Log[j].body = get(s, atom).body
                      /\ Log[j].arguments = get(s, atom).applied \o ValuesAfterTail(i)
                      /\ EndsWith(i, j)
        /\ IsUncallableHead(i) /\ ~Exhausted(i) =>
              /\ Log[i].kind = "err"
              /\ Log[i].err = InvalidFunctionCall(Log[i].expr.l)
              /\ Log[i].size = 1

\* (undefined_name) gave UnknownIdentifier, (1 2 3) gave InvalidFunctionCall,
\* or a symbol bound to a number by its own argument gave InvalidFunctionCall
C12_Witness ==
    /\ result.kind = "err"
    /\ \/ /\ input = App("undefined_name", <<>>)
          /\ result.err = UnknownIdentifier("undefined_name")
       \/ /\ input = Ap(<<Nu(1), Nu(2), Nu(3)>>)
          /\ result.err = InvalidFunctionCall(<<Nu(1), Nu(2), Nu(3)>>)
       \/ /\ input = App("f", <<Def("f", Nu(1))>>)
          /\ result.err = InvalidFunctionCall(<<Sy("f"), Def("f", Nu(1))>>)

(***************************************************************************)
(* C13                                                                     *)
(***************************************************************************)
\* entry i is eval of a quoted value
IsQuoted(i) == Log[i].op = "eval" /\ Log[i].expr.t = "Unevaluated"

\* C13: eval of a quoted value v in the scope s returns v itself, with one
\* quoting layer removed and nothing inside v looked up or dispatched, and
\* returns s with its bindings and its context.
C13_QuoteRoundTrip ==
    /\ \A i \in Entries :
          IsQuoted(i) /\ ~Exhausted(i) =>
              /\ Log[i].kind = "ok"
              /\ Log[i].val = Log[i].expr.q
              /\ Log[i].out = Log[i].scope
              /\ Log[i].size = 1
    /\ \A v \in QuotedValues : \A s \in {scope, before, result.scope} :
          LET r == eval(s, Qu(v), MaxDepth)
          IN r.kind = "ok" /\ r.val = v /\ r.scope = s /\ Len(r.log) = 1

\* a quoted call of an unbound symbol was evaluated in a scope that binds x
\* and came back as it was
C13_Witness ==
    /\ result.kind = "ok"
    /\ \E i \in Entries :
          /\ IsQuoted(i) /\ Log[i].val = App("undefined", <<>>)
          /\ has(Log[i].scope, "x") /\ Log[i].out = Log[i].scope

(***************************************************************************)
(* C14                                                                     *)
(***************************************************************************)
\* the parameter positions of the application at entry i that bind name n
Binds(i, n) ==
    {k \in DOMAIN Log[i].parameters : Log[i].parameters[k] = n}
\* the scope at the call site of entry i, extended with the parameters bound
\* in order to the arguments
CallSiteScope(i) ==
    LET names == {Log[i].parameters[k] : k \in DOMAIN Log[i].parameters}
    IN Scope(Log[i].scope.context,
             [n \in DOMAIN Log[i].scope.bindings \cup names |->
                 IF n \in names
                 THEN Log[i].arguments[CHOOSE k \in Binds(i, n) :
                                          \A j \in Binds(i, n) : j <= k]
                 ELSE Log[i].scope.bindings[n]])
\* the value the last input returned for its last element
LastValue == result.val.l[Len(result.val.l)]

\* C14: the body of a saturated application is evaluated in the scope of
\* the call site extended with the parameters, so a free variable of the
\* body has the value it is bound to at the call site: a name rebound or
\* bound after the definition of the function, or bound by the caller, is
\* the one the body reads.
C14_DynamicScope ==
    /\ \A i \in Entries :
          IsApplication(i) /\ Saturated(i) /\ Log[i].size > 1 =>
              /\ Log[i + 1].op = "eval"
              /\ Log[i + 1].expr = Log[i].body
              /\ Log[i + 1].scope = CallSiteScope(i)
              /\ Log[i].kind = Log[i + 1].kind
              /\ Log[i].val = Log[i + 1].val
              /\ Log[i].err = Log[i + 1].err
    /\ \A i \in Entries :
          Log[i].op = "eval" /\ Log[i].expr.t = "Symbol" /\ ~Exhausted(i) =>
              IF has(Log[i].scope, Log[i].expr.s)
              THEN Log[i].kind = "ok" /\ Log[i].val = get(Log[i].scope, Log[i].expr.s)
              ELSE Log[i].kind = "err" /\ Log[i].err = UnknownIdentifier(Log[i].expr.s)
    /\ input = RebindAfterDefinition => result.kind = "ok" /\ LastValue = Number(12)
    /\ input = BindAfterDefinition => result.kind = "ok" /\ LastValue = Number(6)
    /\ input = BindInCaller => result.kind = "ok" /\ LastValue = Number(8)

\* h, defined while z was 1, was called after z was rebound to 2 and read 2
C14_Witness ==
    /\ input = RebindAfterDefinition
    /\ result.kind = "ok"
    /\ LastValue = Number(12)
    /\ \E i \in Entries :
          /\ IsApplication(i) /\ Saturated(i)
          /\ Log[i].arguments = <<Number(10)>>
          /\ get(Log[i + 1].scope, "z") = Number(2)

(***************************************************************************)
(* C15                                                                     *)
(***************************************************************************)
\* entry i is the call of fold on an operation, an initial value and a list
IsFold(i) ==
    /\ Log[i].op = "call" /\ Log[i].atom = "fold"
    /\ Len(Log[i].values) = 3
    /\ Log[i].values[3].t = "List"
\* op(values): the callable op, a Function or the name of one or of a
\* native, applied in the scope s to the values as they are
ApplyTo(op, s, values) ==
    IF op.t = "Function"
    THEN eval_function(with_context(s, "anonymous"), op.parameters, op.body,
                       op.applied \o values, MaxDepth)
    ELSE IF op.s = "list" THEN Ok(with_context(s, "list"), List(values), <<>>)
    ELSE IF op.s \in INTERNAL_SYMBOLS_TABLE
    THEN call(op.s, with_context(s, op.s), values, MaxDepth)
    ELSE IF has(s, op.s) /\ get(s, op.s).t = "Function"
    THEN eval_function(with_context(s, op.s), get(s, op.s).parameters,
                       get(s, op.s).body, get(s, op.s).applied \o values,
                       MaxDepth)
    ELSE IF has(s, op.s) THEN Err(InvalidFunctionCall(<<op>> \o values), <<>>)
    ELSE Err(UnknownIdentifier(op.s), <<>>)
IsCallable(op) == op.t \in {"Function", "Symbol"}
\* op(...op(op(acc, list[i]), list[i + 1])..., list[n]), every step in the
\* scope the step before returned
RECURSIVE LeftFold(_, _, _, _, _)
LeftFold(op, s, acc, list, i) ==
    IF i > Len(list) THEN Ok(s, acc, <<>>)
    ELSE LET r == ApplyTo(op, s, <<acc, list[i]>>)
         IN IF r.kind # "ok" THEN r
            ELSE LeftFold(op, r.scope, r.val, list, i + 1)

\* C15: fold(op, init, []) returns init and does not invoke op;
\* fold(op, init, [a]) returns op(init, a); on a longer sequence fold
\* returns op(...op(op(init, x1), x2)..., xn), every step made in the scope
\* the step before returned.
C15_AsClaimed ==
    \A i \in Entries :
        IsFold(i) /\ IsCallable(Log[i].values[1]) =>
            LET law == LeftFold(Log[i].values[1], Log[i].scope,
                                Log[i].values[2], Log[i].values[3].l, 1)
            IN /\ Log[i].values[3].l = <<>> => Log[i].size = 1
               /\ law.kind = "ok" =>
                     /\ Log[i].kind = "ok"
                     /\ Log[i].val = law.val
                     /\ Log[i].out.bindings = law.scope.bindings

(***************************************************************************)
(* C16                                                                     *)
(***************************************************************************)
\* entry i is the call of map on an operation and a list
IsMap(i) ==
    /\ Log[i].op = "call" /\ Log[i].atom = "map"
    /\ Len(Log[i].values) = 2
    /\ Log[i].values[2].t = "List"
\* (op(list[i]), ..., op(list[n])) after acc, every application in the scope
\* the one before returned
RECURSIVE Elementwise(_, _, _, _, _)
Elementwise(op, s, acc, list, i) ==
    IF i > Len(list) THEN Ok(s, List(acc), <<>>)
    ELSE LET r == ApplyTo(op, s, <<list[i]>>)
         IN IF r.kind # "ok" THEN r
            ELSE Elementwise(op, r.scope, Append(acc, r.val), list, i + 1)

\* C16: when every application op(xs[i]) succeeds, map(op, xs) returns the
\* sequence of the op(xs[i]) in the order of xs, every application made in
\* the scope the one before returned, and map(op, []) returns the empty
\* sequence and does not invoke op.
C16_AsClaimed ==
    \A i \in Entries :
        IsMap(i) /\ IsCallable(Log[i].values[1]) =>
            LET law == Elementwise(Log[i].values[1], Log[i].scope, <<>>,
                                   Log[i].values[2].l, 1)
            IN /\ Log[i].values[2].l = <<>> => Log[i].size = 1
               /\ law.kind = "ok" =>
                     /\ Log[i].kind = "ok"
                     /\ Log[i].val = law.val
                     /\ Log[i].out.bindings = law.scope.bindings

(***************************************************************************)
(* C17                                                                     *)
(***************************************************************************)
\* the operation is the list (op) of the name of a binary native
IsOperationList(v) ==
    /\ v.t = "List" /\ Len(v.l) = 1 /\ v.l[1].t = "Symbol"
    /\ v.l[1].s \in MathNames \cup ComparisonNames \cup LogicNames

\* C17: (fold '(+) 1 '(1 2 3)) evaluates to 7, and (fold '(op) init
\* '(x1 ... xn)) evaluates to the left fold of the binary native op over the
\* elements, starting from init.
C17_AsClaimed ==
    /\ input = TestFold => result.kind = "ok" /\ result.val = Number(7)
    /\ \A i \in Entries :
          IsFold(i) /\ IsOperationList(Log[i].values[1]) =>
              LET law == LeftFold(Log[i].values[1].l[1], Log[i].scope,
                                  Log[i].values[2], Log[i].values[3].l, 1)
              IN law.kind = "ok" => Log[i].kind = "ok" /\ Log[i].val = law.val

(***************************************************************************)
(* C18                                                                     *)
(***************************************************************************)
\* the operation is the list (op k) of the name of a binary native and its
\* first argument
IsPartialOperationList(v) ==
    /\ v.t = "List" /\ Len(v.l) = 2 /\ v.l[1].t = "Symbol"
    /\ v.l[1].s \in MathNames \cup ComparisonNames \cup LogicNames

\* C18: (map '(+ 2) '(1 2 3)) evaluates to (3 4 5), and so does the map of
\* the variable add2 that (let 'add2 '(+ 2)) binds to the operation list;
\* (map '(op k) xs) evaluates to the sequence of the op(k, x) in the order
\* of xs.
C18_AsClaimed ==
    /\ input = TestMap =>
          result.kind = "ok" /\ result.val = List(<<Nu(3), Nu(4), Nu(5)>>)
    /\ input = TestFunctionCall =>
          /\ result.kind = "ok"
          /\ result.val = List(<<Void, List(<<Nu(3), Nu(4), Nu(5)>>)>>)
    /\ \A i \in Entries :
          IsMap(i) /\ IsPartialOperationList(Log[i].values[1]) =>
              LET op == Log[i].values[1].l[1].s
                  partial == to_function(op, op, <<Log[i].values[1].l[2]>>)
                  law == Elementwise(partial, Log[i].scope, <<>>,
                                     Log[i].values[2].l, 1)
              IN law.kind = "ok" => Log[i].kind = "ok" /\ Log[i].val = law.val

(***************************************************************************)
(* C19                                                                     *)
(***************************************************************************)
\* entry i is the call of a binary arithmetic or comparison native on two
\* arguments
IsBinaryNumeric(i) ==
    /\ Log[i].op = "call"
    /\ Log[i].atom \in MathNames \cup ComparisonNames
    /\ Len(Log[i].values) = 2
\* the call at entry i failed with InvalidArgumentType, expecting a Number
\* at the position and reporting the kind got
FailsAt(i, position, got) ==
    /\ Log[i].kind = "err"
    /\ Log[i].err.e = "InvalidArgumentType"
    /\ Log[i].err.expected = "Number"
    /\ Log[i].err.got = got
    /\ Log[i].err.position = position
\* the kind an error reports for the value v: that of the value under the
\* quoting layers of v
RECURSIVE Reported(_)
Reported(v) == IF v.t = "Unevaluated" THEN Reported(v.q) ELSE v.t
\* what the operator of the native atom computes from the numbers a and b
Operator(atom, a, b) ==
    IF atom \in MathNames THEN eval_math(atom, a, b)
    ELSE eval_comparison(atom, a, b)

\* C19 as claimed: a binary arithmetic or comparison native on two
\* arguments fails with InvalidArgumentType{Number, kind of argument 0, 0}
\* when argument 0 is not a Number, else with InvalidArgumentType{Number,
\* kind of argument 1, 1} when argument 1 is not a Number, and else returns
\* the result of the operator.
C19_AsClaimed ==
    \A i \in Entries :
        IsBinaryNumeric(i) =>
            LET a == Log[i].values[1]
                b == Log[i].values[2]
            IN IF a.t # "Number" THEN FailsAt(i, 0, a.t)
               ELSE IF b.t # "Number" THEN FailsAt(i, 1, b.t)
               ELSE /\ Log[i].kind = "ok"
                    /\ Log[i].val = Operator(Log[i].atom, a.n, b.n).v

\* C19 as amended: the same, where the kind reported for a quoted argument
\* is the kind of the value it quotes, and where the call on two Numbers
\* returns the result of the operator in the scope it was given unless the
\* operator faults (a zero divisor, the quotient of the least integer by
\* -1, an overflow in a build that checks for it), in which case the
\* process aborts and nothing is returned; it never fails with an error.
C19_BinaryNumberArguments ==
    \A i \in Entries :
        IsBinaryNumeric(i) =>
            LET a == Log[i].values[1]
                b == Log[i].values[2]
            IN IF a.t # "Number" THEN FailsAt(i, 0, Reported(a))
               ELSE IF b.t # "Number" THEN FailsAt(i, 1, Reported(b))
               ELSE IF Operator(Log[i].atom, a.n, b.n).fault
               THEN Log[i].kind = "panic"
               ELSE /\ Log[i].kind = "ok"
                    /\ Log[i].val = Operator(Log[i].atom, a.n, b.n).v
                    /\ Log[i].out = Log[i].scope

\* (+ 1 "a") failed at position 1, where a String was got
C19_Witness ==
    /\ input = App("+", <<Nu(1), String("a")>>)
    /\ result.kind = "err"
    /\ result.err = InvalidArgumentType("+", "Number", "String", 1)

(***************************************************************************)
(* C20                                                                     *)
(***************************************************************************)
\* the kind each native coerces the argument in each of its slots to, Any
\* where the argument is taken as it is
Slots ==
    [a \in MathNames \cup ComparisonNames |-> <<"Number", "Number">>]
    @@ [a \in LogicNames |-> <<"Boolean", "Boolean">>]
    @@ [a \in {"head", "tail", "len"} |-> <<"List">>]
    @@ [a \in {"not"} |-> <<"Boolean">>]
    @@ [a \in {"print"} |-> <<"String">>]
    @@ [a \in {"to_string"} |-> <<"Number">>]
    @@ [a \in {"fold"} |-> <<"Any", "Any", "List">>]
    @@ [a \in {"map"} |-> <<"Any", "List">>]
    @@ [a \in {"push"} |-> <<"List", "Any">>]
    @@ [a \in {"fn!"} |-> <<"List", "Any">>]
    @@ [a \in {"def!"} |-> <<"Symbol", "Any">>]
    @@ [a \in {"defn!"} |-> <<"Symbol", "List", "Any">>]
\* entry i is the call of a native on an argument for each of its slots
IsSlotCall(i) ==
    /\ Log[i].op = "call"
    /\ Log[i].atom \in DOMAIN Slots
    /\ Len(Log[i].values) >= Len(Slots[Log[i].atom])
\* the slots of the call at entry i whose argument is not of the kind the
\* native coerces it to, counted from 1
FailingSlots(i) ==
    {k \in DOMAIN Slots[Log[i].atom] :
        /\ Slots[Log[i].atom][k] # "Any"
        /\ Log[i].values[k].t # Slots[Log[i].atom][k]}
FirstFailingSlot(i) ==
    CHOOSE k \in FailingSlots(i) : \A j \in FailingSlots(i) : k <= j

\* C20 as claimed: a native called on an argument that is not of the kind
\* its slot is coerced to fails with InvalidArgumentType whose position is
\* the zero-based index of that slot: 2 for the sequence of fold, 1 for the
\* sequence of map, 0 for the sequence of push and the parameter list of
\* fn!.
C20_AsClaimed ==
    \A i \in Entries :
        IsSlotCall(i) /\ FailingSlots(i) # {} =>
            /\ Log[i].kind = "err"
            /\ Log[i].err.e = "InvalidArgumentType"
            /\ Log[i].err.expected = Slots[Log[i].atom][FirstFailingSlot(i)]
            /\ Log[i].err.position = FirstFailingSlot(i) - 1

(***************************************************************************)
(* C21                                                                     *)
(***************************************************************************)
\* entry e encloses entry j
Encloses(e, j) == e <= j /\ j <= Last(e)

\* C21: when the arguments of a call are evaluated from left to right and
\* the evaluation of argument k is the first to fail, the arguments before
\* it were evaluated successfully, no argument after it is evaluated, the
\* callee is not invoked, and the call and every evaluation that encloses
\* it, up to the evaluation of the input, fail with the error of argument
\* k and end where that argument ended.
C21_FirstFailureAborts ==
    \A t \in Entries :
        Log[t].op = "eval_tail" =>
            LET a == Arguments(t)
            IN \A k \in DOMAIN a :
                   Log[a[k]].kind = "err" =>
                       /\ k = Len(a)
                       /\ k <= Len(Log[t].tail)
                       /\ Log[a[k]].expr = Log[t].tail[k]
                       /\ \A j \in 1..(k - 1) :
                              /\ Log[a[j]].kind = "ok"
                              /\ Log[a[j]].expr = Log[t].tail[j]
                       /\ \A e \in Entries :
                              Encloses(e, a[k]) =>
                                  /\ Log[e].kind = "err"
                                  /\ Log[e].err = Log[a[k]].err
                                  /\ Last(e) = Last(a[k])
                       /\ result.kind = "err"
                       /\ result.err = Log[a[k]].err

\* the second of three arguments of (h 1 undefined (def! y 2)) failed
\* inside the second of three arguments of list
C21_Witness ==
    /\ input = Seqn(<<Defn("h", <<"a", "b">>, Def("w", Sy("a"))),
                      App("h", <<Nu(1), Sy("undefined"), Def("y", Nu(2))>>),
                      Def("z", Nu(3))>>)
    /\ result.kind = "err"
    /\ result.err = UnknownIdentifier("undefined")
    /\ \E t \in Entries :
          /\ Log[t].op = "eval_tail"
          /\ Len(Log[t].tail) = 3
          /\ Len(Arguments(t)) = 2
          /\ Log[Arguments(t)[2]].kind = "err"
          /\ Log[Arguments(t)[2]].expr = Sy("undefined")

(***************************************************************************)
(* C22                                                                     *)
(***************************************************************************)
\* C22: an input of the session whose parsing or evaluation fails leaves
\* the session scope as it was before that input, whatever its
\* sub-expressions bound before the failure, and the session scope is
\* replaced only by the scope of an evaluation that succeeded.
C22_FailedInputKeepsScope ==
    [][inputs' # inputs =>
          /\ result'.kind # "ok" => scope' = scope
          /\ scope' # scope =>
                 /\ result'.kind = "ok"
                 /\ scope' = with_context(eval(scope, input', MaxDepth).scope,
                                          MAIN_CONTEXT)]_vars

\* after x was bound, (list (def! y 1) (undefined)) bound y and failed, and
\* the session scope is the one before it, where y is not bound
C22_Witness ==
    /\ input = Seqn(<<Def("y", Nu(1)), App("undefined", <<>>)>>)
    /\ result.kind = "err"
    /\ result.err = UnknownIdentifier("undefined")
    /\ \E i \in Entries : Log[i].kind = "ok" /\ has(Log[i].out, "y")
    /\ has(before, "x")
    /\ scope = before
    /\ ~has(scope, "y")

(***************************************************************************)
(* C23                                                                     *)
(***************************************************************************)
\* context labels: that of the session, that of a Function in head
\* position, names of natives, a name of the user, the empty label
Contexts == {MAIN_CONTEXT, "anonymous", "+", "-", "fold", "fn!", "f", ""}
\* the outcomes r and q are the same value or the same error, and their
\* scopes hold the same bindings
SameOutcome(r, q) ==
    /\ r.kind = q.kind
    /\ r.val = q.val
    /\ r.err = q.err
    /\ r.scope.bindings = q.scope.bindings

\* C23: for every expression and every two scopes with the same bindings
\* that differ in their context label only, eval returns the same value or
\* the same error, and scopes with the same bindings.
C23_ContextHasNoEffect ==
    inputs > 0 =>
        \A s \in {before, scope} :
            \A c \in Contexts :
                SameOutcome(eval(Scope(c, s.bindings), input, MaxDepth),
                            eval(Scope(MAIN_CONTEXT, s.bindings), input, MaxDepth))

\* (+ (- 5 2)) and (+ 1 "a") put the context label into the value and the
\* error they return, and return the same under the label anonymous
C23_Witness ==
    LET r == eval(Scope("anonymous", before.bindings), input, MaxDepth)
    IN \/ /\ input = App("+", <<App("-", <<Nu(5), Nu(2)>>)>>)
          /\ result.kind = "ok"
          /\ result.val.t = "Function"
          /\ result.val.body = App("-", <<Sy("a0"), Sy("a1")>>)
          /\ r.val = result.val
       \/ /\ input = App("+", <<Nu(1), String("a")>>)
          /\ result.err = InvalidArgumentType("+", "Number", "String", 1)
          /\ r.err = result.err

(***************************************************************************)
(* C24                                                                     *)
(***************************************************************************)
\* the bindings of s are those the session is seeded with and nothing else
IsSeeded(s) ==
    /\ DOMAIN s.bindings = {"MIN_INT", "MAX_INT"}
    /\ s.bindings["MIN_INT"] = Number(-(2 ^ (IntBits - 1)))
    /\ s.bindings["MAX_INT"] = Number((2 ^ (IntBits - 1)) - 1)

\* C24: the scope the primitive clear_scope returns holds MIN_INT = i64::MIN
\* and MAX_INT = i64::MAX and nothing else, whatever the scope it was given
\* held; when the input (clear_scope) is evaluated, the session continues in
\* that scope, where no binding of the user is left.
C24_ClearScopeReturnsSeededScope ==
    /\ \A i \in Entries :
           Log[i].op = "call" /\ Log[i].atom = "clear_scope" =>
               /\ Log[i].kind = "ok"
               /\ Log[i].val = Void
               /\ IsSeeded(Log[i].out)
    /\ input = App("clear_scope", <<>>) /\ Log # <<>> =>
           /\ result.kind = "ok"
           /\ IsSeeded(scope)

\* the session bound x and rebound MAX_INT, then read (clear_scope)
C24_Witness ==
    /\ input = App("clear_scope", <<>>)
    /\ has(before, "x")
    /\ get(before, "MAX_INT") = Number(0)
    /\ \E i \in Entries : Log[i].op = "call" /\ Log[i].atom = "clear_scope"
    /\ ~has(scope, "x")
    /\ get(scope, "MAX_INT") = Number(I64_MAX)

(***************************************************************************)
(* C25                                                                     *)
(***************************************************************************)
\* the names and the values bound, and the scopes they are bound in
BindNames == {"x", "w", "MAX_INT", "unused"}
BindValues == {Number(1), List(<<>>), Symbol("x")}
ScopesSeen == {before, scope, INITIAL_SCOPE, empty(MAIN_CONTEXT)}
\* looking name up in s gives the same as looking it up in t
SameLookup(s, t, name) ==
    /\ has(s, name) = has(t, name)
    /\ has(s, name) => get(s, name) = get(t, name)
\* entry i is a call of def! that bound a name
IsBindingCall(i) ==
    /\ Log[i].op = "call"
    /\ Log[i].atom = "def!"
    /\ Len(Log[i].values) >= 2
    /\ Log[i].kind = "ok"

\* C25: bind(name, value) returns a scope in which name is bound to value,
\* every other name is looked up as in the receiver and the context is
\* that of the receiver; the receiver is looked up as before; a later bind
\* of the name shadows an earlier one; with_context changes the context
\* and keeps every binding.
C25_BindLeavesReceiver ==
    /\ \A s \in ScopesSeen, name \in BindNames, value \in BindValues :
           LET snapshot == s.bindings
               t == bind(s, name, value)
           IN /\ has(t, name) /\ get(t, name) = value
              /\ \A n \in (DOMAIN s.bindings \cup BindNames) \ {name} :
                     SameLookup(t, s, n)
              /\ t.context = s.context
              /\ s.bindings = snapshot
              /\ \A later \in BindValues :
                     /\ get(bind(t, name, later), name) = later
                     /\ \A n \in (DOMAIN s.bindings \cup BindNames) \ {name} :
                            SameLookup(bind(t, name, later), s, n)
              /\ \A c \in {"main", "anonymous", "+"} :
                     /\ with_context(t, c).context = c
                     /\ with_context(t, c).bindings = t.bindings
    /\ \A i \in Entries :
           IsBindingCall(i) =>
               LET name == Log[i].values[1].s
               IN /\ has(Log[i].out, name)
                  /\ get(Log[i].out, name) = Log[i].values[2]
                  /\ \A n \in (DOMAIN Log[i].scope.bindings
                                   \cup DOMAIN Log[i].out.bindings) \ {name} :
                         SameLookup(Log[i].out, Log[i].scope, n)
                  /\ Log[i].out.context = Log[i].scope.context

\* def! bound a name that the scope it was called in had bound to another
\* value
C25_Witness ==
    \E i \in Entries :
        /\ IsBindingCall(i)
        /\ has(Log[i].scope, Log[i].values[1].s)
        /\ get(Log[i].scope, Log[i].values[1].s) # Log[i].values[2]
        /\ get(Log[i].out, Log[i].values[1].s) = Log[i].values[2]

(***************************************************************************)
(* C26                                                                     *)
(***************************************************************************)
\* clear_scope ran during entry i, and not inside the body of a function
\* that was applied during entry i
ClearedOutsideFunction(i) ==
    \E j \in i..Last(i) :
        /\ Log[j].op = "call"
        /\ Log[j].atom = "clear_scope"
        /\ ~\E f \in i..j : Log[f].op = "eval_function" /\ Encloses(f, j)

\* C26: every name bound in the session scope before an input is bound in
\* the session scope after it (to the same value or to another one), the
\* names MIN_INT and MAX_INT among them, unless the evaluation of the input
\* succeeded and clear_scope ran in it outside the body of a function; and
\* the same holds of the scopes before and after every evaluation that
\* succeeded inside the input.
C26_ScopeGrowsByBinding ==
    /\ inputs > 0 =>
           \/ DOMAIN before.bindings \subseteq DOMAIN scope.bindings
           \/ result.kind = "ok" /\ ClearedOutsideFunction(1)
    /\ {"MIN_INT", "MAX_INT"} \subseteq DOMAIN scope.bindings
    /\ \A i \in Entries :
           Log[i].op = "eval" /\ Log[i].kind = "ok" =>
               \/ DOMAIN Log[i].scope.bindings \subseteq DOMAIN Log[i].out.bindings
               \/ ClearedOutsideFunction(i)

\* the session bound x and then read (list (defn! g () (clear_scope)) (g)):
\* clear_scope ran inside g, and x and g are bound afterwards
C26_Witness ==
    /\ input = Seqn(<<Defn("g", <<>>, App("clear_scope", <<>>)), App("g", <<>>)>>)
    /\ result.kind = "ok"
    /\ has(before, "x")
    /\ ~has(before, "g")
    /\ Cleared(1)
    /\ ~ClearedOutsideFunction(1)
    /\ has(scope, "x")
    /\ has(scope, "g")
    /\ has(scope, "MIN_INT")

(***************************************************************************)
(* C27                                                                     *)
(***************************************************************************)
\* C27 as claimed: every evaluation returns a scope and a value or an
\* EvalError, the call of a function whose body calls the function itself
\* included: no evaluation exhausts the call stack of the process.
C27_AsClaimed ==
    inputs > 0 =>
        \/ result.kind \in {"ok", "err"}
        \/ result.kind = "panic" /\ result.err.why # "stack_overflow"

(***************************************************************************)
(* C28                                                                     *)
(***************************************************************************)
DivisionNames == {"/", "div"}
RemainderNames == {"%", "mod"}
\* entry i is the call of a division or a remainder on two Numbers
IsDivision(i) ==
    /\ Log[i].op = "call"
    /\ Log[i].atom \in DivisionNames \cup RemainderNames
    /\ Len(Log[i].values) >= 2
    /\ Log[i].values[1].t = "Number"
    /\ Log[i].values[2].t = "Number"
\* entry i is the call of head or tail on a List
IsHeadOrTail(i) ==
    /\ Log[i].op = "call"
    /\ Log[i].atom \in {"head", "tail"}
    /\ Len(Log[i].values) >= 1
    /\ Log[i].values[1].t = "List"
\* the quotient of a by b rounded toward zero, and what is left of a
Quotient(a, b) ==
    LET size(n) == IF n < 0 THEN -n ELSE n
    IN CHOOSE q \in -size(a)..size(a) :
           \E r \in -size(b)..size(b) :
               /\ a = q * b + r
               /\ IF a >= 0 THEN 0 <= r /\ r < size(b)
                  ELSE -size(b) < r /\ r <= 0
Left(a, b) == a - b * Quotient(a, b)
\* the call at entry i aborted the process: it returned no value and no
\* EvalError
Aborted(i) == Log[i].kind = "panic"
\* the call at entry i returned the value v in the scope it was given
Gave(i, v) ==
    /\ Log[i].kind = "ok"
    /\ Log[i].val = v
    /\ Log[i].out = Log[i].scope
\* head and tail abort on the empty sequence and give the first element
\* and the elements after the first of any other
HeadAndTailAsClaimed(i) ==
    LET l == Log[i].values[1].l
    IN IF l = <<>> THEN Aborted(i)
       ELSE IF Log[i].atom = "head" THEN Gave(i, l[1])
       ELSE Gave(i, List(SubSeq(l, 2, Len(l))))
\* what a division or a remainder gives when it does not abort
DivisionGives(i) ==
    LET a == Log[i].values[1].n
        b == Log[i].values[2].n
    IN IF Log[i].atom \in DivisionNames THEN Gave(i, Number(Quotient(a, b)))
       ELSE Gave(i, Number(Left(a, b)))

\* C28 as claimed: /, div, % and mod with a zero second argument, and head
\* and tail of an empty sequence, abort the process and return neither an
\* EvalError nor a value; on every other input of the right kinds they
\* return a value.
C28_AsClaimed ==
    \A i \in Entries :
        /\ IsHeadOrTail(i) => HeadAndTailAsClaimed(i)
        /\ IsDivision(i) =>
               IF Log[i].values[2].n = 0 THEN Aborted(i) ELSE DivisionGives(i)

\* C28 as amended: the same, where /, div, % and mod abort the process also
\* when the first argument is the least integer and the second is -1.
C28_NativeFaultsAbort ==
    \A i \in Entries :
        /\ IsHeadOrTail(i) => HeadAndTailAsClaimed(i)
        /\ IsDivision(i) =>
               IF \/ Log[i].values[2].n = 0
                  \/ /\ Log[i].values[1].n = -(2 ^ (IntBits - 1))
                     /\ Log[i].values[2].n = -1
               THEN Aborted(i)
               ELSE DivisionGives(i)

\* (head (list)) aborted the process on the empty sequence
C28_Witness ==
    /\ input = App("head", <<Seqn(<<>>)>>)
    /\ result.kind = "panic"
    /\ ~running
    /\ \E i \in Entries : IsHeadOrTail(i) /\ Log[i].values[1].l = <<>>

(***************************************************************************)
(* C29                                                                     *)
(***************************************************************************)
\* entry k is the call of a native or the application of a Function on
\* more values than it needs
IsSurplusCall(k) ==
    \/ /\ Log[k].op = "call"
       /\ Len(Log[k].values) > required_arguments_count[Log[k].atom]
    \/ /\ Log[k].op = "eval_function"
       /\ Len(Log[k].arguments) > Len(Log[k].parameters)
\* the callee of entry k on the values it needs and no more
OnFirstValues(k) ==
    IF Log[k].op = "call"
    THEN call(Log[k].atom, Log[k].scope,
              SubSeq(Log[k].values, 1, required_arguments_count[Log[k].atom]),
              MaxDepth)
    ELSE eval_function(Log[k].scope, Log[k].parameters, Log[k].body,
                       SubSeq(Log[k].arguments, 1, Len(Log[k].parameters)),
                       MaxDepth)
\* the entry of the callee of the call at entry i, whose tail was evaluated
\* if its head does not end in `!`
CalleeEntry(i) == IF EndsInBang(Log[i].expr.l[1].s) THEN i + 1 ELSE Last(i + 1) + 1
\* entry i is eval of a call whose callee was entered on more values than
\* it needs
IsSurplusEval(i) ==
    /\ IsSymbolCall(i)
    /\ Log[i].expr.l[1].s # "list"
    /\ ~EndsInBang(Log[i].expr.l[1].s) => Log[i + 1].kind = "ok"
    /\ CalleeEntry(i) <= Last(i)
    /\ IsSurplusCall(CalleeEntry(i))
\* the number of values the callee of entry i does not need
Surplus(i) ==
    LET k == CalleeEntry(i)
    IN IF Log[k].op = "call"
       THEN Len(Log[k].values) - required_arguments_count[Log[k].atom]
       ELSE Len(Log[k].arguments) - Len(Log[k].parameters)
\* clear_scope ran in the callee of entry i, outside the body of a function
ClearedByCallee(i) ==
    \E j \in CalleeEntry(i)..Last(i) :
        /\ Log[j].op = "call"
        /\ Log[j].atom = "clear_scope"
        /\ ~\E f \in CalleeEntry(i)..j :
               Log[f].op = "eval_function" /\ Encloses(f, j)

\* C29 as claimed: a call on more arguments than the callee needs gives
\* what the callee gives on the arguments it needs; the expressions of the
\* other arguments are evaluated, and the names bound after them are bound
\* in the scope the call returns.
C29_AsClaimed ==
    \A i \in Entries :
        IsSurplusEval(i) =>
            LET tail == Tail(Log[i].expr.l)
                k == CalleeEntry(i)
                first == OnFirstValues(k)
            IN /\ Log[k].kind = first.kind
               /\ Log[k].val = first.val
               /\ Log[k].err = first.err
               /\ \A j \in (Len(tail) - Surplus(i) + 1)..Len(tail) :
                      \E e \in (i + 1)..(k - 1) :
                          /\ Log[e].op = "eval"
                          /\ Log[e].expr = tail[j]
                          /\ Log[e].kind = "ok"
                          /\ Log[i].kind = "ok" =>
                                 DOMAIN Log[e].out.bindings
                                     \subseteq DOMAIN Log[i].out.bindings

\* C29 as amended: a native or a Function entered on more values than it
\* needs gives what it gives on the first of them, as many as it needs.  In
\* a call whose head does not end in `!`, every argument is evaluated, the
\* ones the callee does not need included, and the names bound after them
\* are bound in the scope the call returns unless the callee ran
\* clear_scope; def!, fn! and defn! evaluate none of their arguments.
C29_SurplusArgumentsIgnored ==
    /\ \A k \in Entries :
           Log[k].op \in {"call", "eval_function"} /\ IsSurplusCall(k) =>
               LET first == OnFirstValues(k)
               IN /\ Log[k].kind = first.kind
                  /\ Log[k].val = first.val
                  /\ Log[k].err = first.err
                  /\ Log[k].out = first.scope
    /\ \A i \in Entries :
           IsSurplusEval(i) =>
               IF EndsInBang(Log[i].expr.l[1].s)
               THEN Log[i].expr.l[1].s \in {"def!", "fn!", "defn!"} =>
                        Log[i].size = 2
               ELSE LET tail == Tail(Log[i].expr.l)
                        a == Arguments(i + 1)
                    IN /\ Len(a) = Len(tail)
                       /\ \A j \in DOMAIN a :
                              /\ Log[a[j]].expr = tail[j]
                              /\ Log[a[j]].kind = "ok"
                       /\ Log[i].kind = "ok" =>
                              \/ ClearedByCallee(i)
                              \/ DOMAIN Log[i + 1].out.bindings
                                     \subseteq DOMAIN Log[i].out.bindings

\* (f 1 (def! z 3) 4) applied f, which has one parameter, to three values,
\* returned 1, and z is bound afterwards
C29_Witness ==
    /\ input = Seqn(<<Defn("f", <<"a">>, Sy("a")),
                      App("f", <<Nu(1), Def("z", Nu(3)), Nu(4)>>)>>)
    /\ result.kind = "ok"
    /\ result.val = List(<<Void, Number(1)>>)
    /\ has(scope, "z")
    /\ \E k \in Entries :
          /\ Log[k].op = "eval_function"
          /\ Len(Log[k].parameters) = 1
          /\ Len(Log[k].arguments) = 3

(***************************************************************************)
(* C30                                                                     *)
(***************************************************************************)
\* entry i is eval of a call whose head is the name list or the name of a
\* native, and whose tail, if it was evaluated, was evaluated successfully
IsBuiltInCall(i) ==
    /\ IsSymbolCall(i)
    /\ Log[i].expr.l[1].s \in INTERNAL_SYMBOLS_TABLE \cup {"list"}
    /\ ~EndsInBang(Log[i].expr.l[1].s) => Log[i + 1].kind = "ok"
\* entry i is eval of a Symbol
IsName(i) == Log[i].op = "eval" /\ Log[i].expr.t = "Symbol" /\ ~Exhausted(i)

\* C30: a call whose head is the name list returns the values of its
\* arguments, and a call whose head is the name of a native enters that
\* native on the arguments and returns what it returns, whatever the scope
\* binds these names to: no Function of the user is applied by the call.  A
\* Symbol in argument position evaluates to the value the scope binds it
\* to, and to UnknownIdentifier when the scope does not bind it, the names
\* of natives included.
C30_BuiltInsTakePrecedence ==
    /\ \A i \in Entries :
           IsBuiltInCall(i) =>
               IF Log[i].expr.l[1].s = "list"
               THEN /\ Log[i].kind = "ok"
                    /\ Log[i].val = Log[i + 1].val
                    /\ Log[i].out = Log[i + 1].out
                    /\ Last(i) = Last(i + 1)
               ELSE LET k == CalleeEntry(i)
                    IN /\ k <= Last(i)
                       /\ Log[k].op = "call"
                       /\ Log[k].atom = Log[i].expr.l[1].s
                       /\ Log[k].values = ValuesAfterTail(i)
                       /\ Last(k) = Last(i)
                       /\ Log[i].kind = Log[k].kind
                       /\ Log[i].val = Log[k].val
                       /\ Log[i].err = Log[k].err
                       /\ Log[i].out = Log[k].out
    /\ \A i \in Entries :
           IsName(i) =>
               IF Log[i].expr.s \in DOMAIN Log[i].scope.bindings
               THEN /\ Log[i].kind = "ok"
                    /\ Log[i].val = Log[i].scope.bindings[Log[i].expr.s]
               ELSE /\ Log[i].kind = "err"
                    /\ Log[i].err = UnknownIdentifier(Log[i].expr.s)

\* after (defn! + (a b) 0), (+ 1 2) returned 3 and + in argument position
\* evaluated to the Function of the user
C30_Witness ==
    /\ input = Seqn(<<Defn("+", <<"a", "b">>, Nu(0)),
                      App("+", <<Nu(1), Nu(2)>>), Sy("+")>>)
    /\ result.kind = "ok"
    /\ result.val = List(<<Void, Number(3), Function(<<"a", "b">>, Nu(0), <<>>)>>)
    /\ \E i \in Entries :
          /\ IsBuiltInCall(i)
          /\ Log[i].expr.l[1].s = "+"
          /\ has(Log[i + 1].out, "+")

=============================================================================
